---- MODULE Spec2Model ----
(***************************************************************************)
(* Verification model of the session core of Any-code:                     *)
(*   - the session lifecycle hook (useSessionLifecycle.ts): history load   *)
(*     with its race guard, active-session check, live-stream reconnect;   *)
(*   - the billing ledger aggregator (aggregateSessionCost);               *)
(*   - the message grouping engine (groupMessages).                        *)
(* Each part has its own specification over the shared variable list; the  *)
(* variables of the other parts are held at their initial values.          *)
(***************************************************************************)
EXTENDS Integers, Sequences, FiniteSets, TLC

\* ------------------------------------------------------------------------
\* Bounds of the model
\* ------------------------------------------------------------------------
MaxLoads == 3
MaxChecks == 2
MaxReconnects == 2
MaxEmit == 2

Null == "null"

\* setError(null) / setCodexRateLimits never called
NoError == <<"none">>
NoLimits == <<"none">>

\* ------------------------------------------------------------------------
\* Sessions and engines (session.id, (session as any).engine); s1 and s2 are
\* running primary sessions, s5 is a finished primary session
\* ------------------------------------------------------------------------
SessionIds == {"s1", "s2", "s3", "s4", "s5"}

EngineOf(s) ==
  CASE s = "s3" -> "codex"
    [] s = "s4" -> "gemini"
    [] OTHER -> "claude"

VARIABLES
  \* useSessionLifecycle.ts: refs and React state handed in by the config
  loadingSessionIdRef, isMounted, isListeningRef, hasActiveSessionRef,
  unlistenRefs, isLoading, error, messages, rawJsonlOutput, claudeSessionId,
  codexRateLimits, notFoundCalls,
  \* asynchronous invocations of the three operations, in call order
  loads, checks, recs,
  \* the transport and the backend
  subs, running, emitted, lastPayload,
  \* console.debug lines of the history filter, latest completed load
  debugLog,
  \* aggregateSessionCost: the scanned message sequence and the returned value
  billMessages, billResult,
  \* groupMessages: the message sequence and the returned groups
  grpMessages, grpResult,
  \* shouldHideMessage of every message against the returned groups
  grpHidden,
  \* extractGeminiUsage: the raw tokens value and the values returned by a
  \* first call on it and a second call on the first result
  geminiTokens, geminiUsage,
  \* convertGeminiSessionDetailToClaudeMessages: the detail and the returned
  \* messages
  geminiDetail, geminiConverted

lifeVars == <<loadingSessionIdRef, isMounted, isListeningRef, hasActiveSessionRef,
              unlistenRefs, isLoading, error, messages, rawJsonlOutput,
              claudeSessionId, codexRateLimits, notFoundCalls,
              loads, checks, recs, subs, running, emitted, lastPayload,
              debugLog>>

billVars == <<billMessages, billResult>>

grpVars == <<grpMessages, grpResult, grpHidden>>

gemVars == <<geminiTokens, geminiUsage, geminiDetail, geminiConverted>>

pureVars == <<billVars, grpVars, gemVars>>

vars == <<lifeVars, billVars, grpVars, gemVars>>

\* what a history load publishes (the state a stale completion must not touch)
published == <<messages, rawJsonlOutput, error, isLoading, notFoundCalls>>

\* ------------------------------------------------------------------------
\* Records of a session's event log
\* ------------------------------------------------------------------------
Record(s, k) == <<s, k>>

\* api.loadSessionHistory / api.getGeminiSessionDetail: the ordered log so far
FetchHistory(s) == [k \in 1..emitted[s] |-> Record(s, k)]

\* JSON.stringify(h) of one history record / the payload of a live event
Stringify(rec) == <<"json", rec>>

\* a payload that is not valid JSON (a line cut short by the transport)
Malformed(rec) == <<"cut", rec>>

\* JSON.parse of a payload returns / throws
CanParse(payload) == payload[1] = "json"

Parse(payload) == payload[2]

\* no output event delivered yet
NoPayload == <<"none">>

\* codexConverter.getRateLimits() after converting the events of one load
GetRateLimits(s) == <<"limits", s>>

\* history.map(h => JSON.stringify(h))
StringifyAll(h) == [k \in 1..Len(h) |-> Stringify(h[k])]

\* n copies of x
Copies(n, x) == [k \in 1..n |-> x]

\* ------------------------------------------------------------------------
\* The records of the histories: type field and slash-command markers
\* ------------------------------------------------------------------------
\* the number of records in the log of the finished session s5
FinishedLen == 8

\* entry.type absent
NoType == ""

\* entry.type of a raw history record
RawType(rec) ==
  CASE rec[1] = "s5" /\ rec[2] = 1 -> "summary"
    [] rec[1] = "s5" /\ rec[2] = 2 -> "queue-operation"
    [] rec[1] = "s5" /\ rec[2] = 3 -> NoType
    [] rec[1] = "s5" /\ rec[2] = 4 -> "queue-operation"
    [] rec[1] = "s5" /\ rec[2] = 5 -> "file-history-snapshot"
    [] rec[1] = "s5" /\ rec[2] \in {6, 7} -> "user"
    [] rec[1] = "s5" /\ rec[2] = 8 -> "result"
    [] rec[1] = "s3" /\ rec[2] = 1 -> "user"
    [] rec[1] = "s1" /\ rec[2] % 2 = 1 -> "user"
    [] OTHER -> "assistant"

\* the marker texts found in the text content of a raw record
Markers(rec) ==
  CASE rec[1] = "s5" /\ rec[2] = 6 -> {"<local-command-stdout>", "<command-name>"}
    [] rec[1] = "s5" /\ rec[2] = 7 -> {"Unknown slash command:"}
    [] rec[1] = "s3" /\ rec[2] = 1 -> {"<command-name>"}
    [] OTHER -> {}

validTypes == {"user", "assistant", "system", "result", "summary", "thinking", "tool_use"}

\* the predicate of history.filter(...)
PassesFilter(entry) == RawType(entry) = NoType \/ RawType(entry) \in validTypes

\* a message whose type (and subtype) differ from the raw record's
Retyped(entry, type, subtype) == <<entry[1], entry[2], type, subtype>>

NoSubtype == "none"

\* .map(entry => ({...entry, type: entry.type || "assistant"}))
DefaultType(entry) ==
  IF RawType(entry) = NoType THEN Retyped(entry, "assistant", NoSubtype) ELSE entry

\* message.type of a message
KindOf(m) == IF Len(m) > 2 THEN m[3] ELSE RawType(m)

\* the retype of slash-command messages from user to system
RetypeCommand(m) ==
  LET isCommandOutput == "<local-command-stdout>" \in Markers(m)
      isCommandMeta == "<command-name>" \in Markers(m) \/ "<command-message>" \in Markers(m)
      isCommandError == "Unknown slash command:" \in Markers(m)
  IN IF KindOf(m) = "user" /\ (isCommandOutput \/ isCommandMeta \/ isCommandError)
     THEN Retyped(m, "system",
                  IF isCommandOutput THEN "command-output"
                  ELSE IF isCommandError THEN "command-error" ELSE "command-meta")
     ELSE m

\* loadedMessages then processedMessages of one load
LoadedMessages(history) ==
  LET kept == SelectSeq(history, PassesFilter)
  IN [k \in 1..Len(kept) |-> RetypeCommand(DefaultType(kept[k]))]

\* the console.debug lines of the filter: one per type not yet in warnedTypes
RECURSIVE FilterWarnings(_, _)
FilterWarnings(history, warnedTypes) ==
  IF history = <<>> THEN <<>>
  ELSE LET type == RawType(Head(history)) IN
       IF ~PassesFilter(Head(history)) /\ type \notin warnedTypes
       THEN <<type>> \o FilterWarnings(Tail(history), warnedTypes \cup {type})
       ELSE FilterWarnings(Tail(history), warnedTypes)

\* ------------------------------------------------------------------------
\* loadSessionHistory
\* ------------------------------------------------------------------------
\* the race guard: the completion belongs to the latest requested session
IsCurrentLoad(cur) == loadingSessionIdRef = cur

\* the synchronous part up to the fetch
LoadHistory(s) ==
  /\ Len(loads) < MaxLoads
  /\ loadingSessionIdRef' = s
  /\ isLoading' = TRUE
  /\ error' = NoError
  /\ loads' = Append(loads, [sid |-> s, pc |-> "fetching"])
  /\ UNCHANGED <<isMounted, isListeningRef, hasActiveSessionRef, unlistenRefs,
                 messages, rawJsonlOutput, claudeSessionId, codexRateLimits,
                 notFoundCalls, checks, recs, subs, running, emitted, lastPayload, debugLog>>
  /\ UNCHANGED pureVars

\* the publication without setIsLoading(false)
LoadResolved_LoadingKept(i) ==
  LET cur == loads[i].sid
      history == FetchHistory(cur)
  IN
  /\ loads[i].pc = "fetching"
  /\ loads' = [loads EXCEPT ![i].pc = "loaded"]
  /\ codexRateLimits' = IF EngineOf(cur) = "codex" THEN GetRateLimits(cur)
                        ELSE codexRateLimits
  /\ debugLog' = FilterWarnings(history, {})
  /\ IF IsCurrentLoad(cur) /\ isMounted
     THEN /\ messages' = LoadedMessages(history)
          /\ rawJsonlOutput' = StringifyAll(history)
     ELSE UNCHANGED <<messages, rawJsonlOutput>>
  /\ UNCHANGED <<loadingSessionIdRef, isMounted, isListeningRef, hasActiveSessionRef,
                 unlistenRefs, isLoading, error, claudeSessionId, notFoundCalls,
                 checks, recs, subs, running, emitted, lastPayload>>
  /\ UNCHANGED pureVars

\* the fetch resolves with a history: conversion, filter and retype, race
\* guard, publication
LoadResolved(i) ==
  LET cur == loads[i].sid
      history == FetchHistory(cur)
  IN
  /\ loads[i].pc = "fetching"
  /\ loads' = [loads EXCEPT ![i].pc = "loaded"]
  /\ codexRateLimits' = IF EngineOf(cur) = "codex" THEN GetRateLimits(cur)
                        ELSE codexRateLimits
  /\ debugLog' = FilterWarnings(history, {})
  /\ IF IsCurrentLoad(cur) /\ isMounted
     THEN /\ messages' = LoadedMessages(history)
          /\ rawJsonlOutput' = StringifyAll(history)
          /\ isLoading' = FALSE
     ELSE UNCHANGED <<messages, rawJsonlOutput, isLoading>>
  /\ UNCHANGED <<loadingSessionIdRef, isMounted, isListeningRef, hasActiveSessionRef,
                 unlistenRefs, error, claudeSessionId, notFoundCalls,
                 checks, recs, subs, running, emitted, lastPayload>>
  /\ UNCHANGED pureVars

\* the messages of the errors a fetch can reject with, as word sequences
ErrorMessages ==
  { <<"Session", "file", "not", "found:", "s.jsonl">>,
    <<"Session", "ID", "not", "found">>,
    <<"project", "directory", "not", "found">>,
    <<"Not", "Found">>,
    <<"permission", "denied">> }

\* errorMessage.includes(phrase)
Includes(msg, phrase) ==
  \E k \in 1..Len(msg) :
    /\ k + Len(phrase) - 1 <= Len(msg)
    /\ SubSeq(msg, k, k + Len(phrase) - 1) = phrase

isSessionNotFound(errorMessage) ==
  \/ Includes(errorMessage, <<"Session", "file", "not", "found:">>)
  \/ Includes(errorMessage, <<"not", "found">>)
  \/ Includes(errorMessage, <<"Session", "ID", "not", "found">>)

\* the error set by a failed load: setError("加载会话历史记录失败")
LoadFailedError == <<"loadFailed">>

LoadFailed_NotFoundAsError(i, err) ==
  LET cur == loads[i].sid IN
  /\ loads[i].pc = "fetching"
  /\ loads' = [loads EXCEPT ![i].pc = IF isSessionNotFound(err) THEN "notFound"
                                      ELSE "failed"]
  /\ IF IsCurrentLoad(cur) /\ isMounted
     THEN /\ isLoading' = FALSE
          /\ error' = LoadFailedError
          /\ UNCHANGED notFoundCalls
     ELSE UNCHANGED <<isLoading, error, notFoundCalls>>
  /\ UNCHANGED <<loadingSessionIdRef, isMounted, isListeningRef, hasActiveSessionRef,
                 unlistenRefs, messages, rawJsonlOutput, claudeSessionId,
                 codexRateLimits, checks, recs, subs, running, emitted, lastPayload, debugLog>>
  /\ UNCHANGED pureVars

LoadFailed_ErrorAsNotFound(i, err) ==
  LET cur == loads[i].sid IN
  /\ loads[i].pc = "fetching"
  /\ loads' = [loads EXCEPT ![i].pc = IF isSessionNotFound(err) THEN "notFound"
                                      ELSE "failed"]
  /\ IF IsCurrentLoad(cur) /\ isMounted
     THEN /\ isLoading' = FALSE
          /\ notFoundCalls' = notFoundCalls + 1
          /\ UNCHANGED error
     ELSE UNCHANGED <<isLoading, error, notFoundCalls>>
  /\ UNCHANGED <<loadingSessionIdRef, isMounted, isListeningRef, hasActiveSessionRef,
                 unlistenRefs, messages, rawJsonlOutput, claudeSessionId,
                 codexRateLimits, checks, recs, subs, running, emitted, lastPayload, debugLog>>
  /\ UNCHANGED pureVars

\* the fetch rejects with error message err: race guard, mounted check, then
\* "not found" against any other failure
LoadFailed(i, err) ==
  LET cur == loads[i].sid IN
  /\ loads[i].pc = "fetching"
  /\ loads' = [loads EXCEPT ![i].pc = IF isSessionNotFound(err) THEN "notFound"
                                      ELSE "failed"]
  /\ IF IsCurrentLoad(cur) /\ isMounted
     THEN /\ isLoading' = FALSE
          /\ IF isSessionNotFound(err)
             THEN /\ notFoundCalls' = notFoundCalls + 1
                  /\ UNCHANGED error
             ELSE /\ error' = LoadFailedError
                  /\ UNCHANGED notFoundCalls
     ELSE UNCHANGED <<isLoading, error, notFoundCalls>>
  /\ UNCHANGED <<loadingSessionIdRef, isMounted, isListeningRef, hasActiveSessionRef,
                 unlistenRefs, messages, rawJsonlOutput, claudeSessionId,
                 codexRateLimits, checks, recs, subs, running, emitted, lastPayload, debugLog>>
  /\ UNCHANGED pureVars

\* ------------------------------------------------------------------------
\* reconnectToSession
\* ------------------------------------------------------------------------
\* subscription handle: <<index of the reconnect invocation, event class>>
Classes == {"output", "error", "complete"}

SubSession(x) == recs[x[1]].sid

\* the subscriptions of class cls registered for session s
SubsOf(s, cls) == {x \in subs : x[2] = cls /\ SubSession(x) = s}

\* the synchronous part of reconnectToSession up to the first listen();
\* claimed is the claimed session id at the moment of the call, and the
\* variables the function leaves alone are left to the calling action
ReconnectEntry_NoGuard(s, claimed) ==
  /\ subs' = subs \ unlistenRefs
  /\ unlistenRefs' = {}
  /\ claudeSessionId' = s
  /\ isListeningRef' = TRUE
  /\ recs' = Append(recs, [sid |-> s, pc |-> "listenOutput"])

ReconnectEntry(s, claimed) ==
  IF isListeningRef
  THEN /\ recs' = Append(recs, [sid |-> s, pc |-> "returned"])
       /\ claudeSessionId' = claimed
       /\ UNCHANGED <<subs, unlistenRefs, isListeningRef>>
  ELSE /\ subs' = subs \ unlistenRefs
       /\ unlistenRefs' = {}
       /\ claudeSessionId' = s
       /\ isListeningRef' = TRUE
       /\ recs' = Append(recs, [sid |-> s, pc |-> "listenOutput"])

Reconnect(s) ==
  /\ Len(recs) < MaxReconnects
  /\ ReconnectEntry(s, claudeSessionId)
  /\ UNCHANGED <<loadingSessionIdRef, isMounted, hasActiveSessionRef, isLoading,
                 error, messages, rawJsonlOutput, codexRateLimits, notFoundCalls,
                 loads, checks, running, emitted, lastPayload, debugLog>>
  /\ UNCHANGED pureVars

NextListen(pc) ==
  CASE pc = "listenOutput" -> "listenError"
    [] pc = "listenError" -> "listenComplete"
    [] pc = "listenComplete" -> "finish"

ClassOfListen(pc) ==
  CASE pc = "listenOutput" -> "output"
    [] pc = "listenError" -> "error"
    [] pc = "listenComplete" -> "complete"

\* one listen() of the invocation takes effect in the transport
Listen(r) ==
  /\ recs[r].pc \in {"listenOutput", "listenError", "listenComplete"}
  /\ subs' = subs \cup {<<r, ClassOfListen(recs[r].pc)>>}
  /\ recs' = [recs EXCEPT ![r].pc = NextListen(recs[r].pc)]
  /\ UNCHANGED <<loadingSessionIdRef, isMounted, isListeningRef, hasActiveSessionRef,
                 unlistenRefs, isLoading, error, messages, rawJsonlOutput,
                 claudeSessionId, codexRateLimits, notFoundCalls,
                 loads, checks, running, emitted, lastPayload, debugLog>>
  /\ UNCHANGED pureVars

\* the continuation after the third listen(): store the handles, mark active
ReconnectFinish(r) ==
  /\ recs[r].pc = "finish"
  /\ recs' = [recs EXCEPT ![r].pc = "done"]
  /\ unlistenRefs' = {<<r, "output">>, <<r, "error">>, <<r, "complete">>}
  /\ IF isMounted
     THEN /\ isLoading' = TRUE
          /\ hasActiveSessionRef' = TRUE
     ELSE UNCHANGED <<isLoading, hasActiveSessionRef>>
  /\ UNCHANGED <<loadingSessionIdRef, isMounted, isListeningRef, error, messages,
                 rawJsonlOutput, claudeSessionId, codexRateLimits, notFoundCalls,
                 loads, checks, subs, running, emitted, lastPayload, debugLog>>
  /\ UNCHANGED pureVars

\* ------------------------------------------------------------------------
\* live events of a running session, delivered to the registered handlers
\* ------------------------------------------------------------------------
\* claude-output:<s> with a well-formed or a malformed payload: every
\* registered output handler stores the payload, parses it and appends the
\* message; a payload that does not parse is logged by the catch
OutputEvent(s, wellFormed) ==
  LET rec == Record(s, emitted[s] + 1)
      payload == IF wellFormed THEN Stringify(rec) ELSE Malformed(rec)
      n == Cardinality(SubsOf(s, "output"))
  IN
  /\ s \in running
  /\ emitted[s] < MaxEmit
  /\ emitted' = [emitted EXCEPT ![s] = @ + 1]
  /\ lastPayload' = payload
  /\ IF isMounted
     THEN /\ rawJsonlOutput' = rawJsonlOutput \o Copies(n, payload)
          /\ messages' = IF CanParse(payload)
                         THEN messages \o Copies(n, Parse(payload))
                         ELSE messages
     ELSE UNCHANGED <<rawJsonlOutput, messages>>
  /\ UNCHANGED <<loadingSessionIdRef, isMounted, isListeningRef, hasActiveSessionRef,
                 unlistenRefs, isLoading, error, claudeSessionId, codexRateLimits,
                 notFoundCalls, loads, checks, recs, subs, running, debugLog>>
  /\ UNCHANGED pureVars

\* claude-error:<s>
ErrorEvent(s) ==
  /\ s \in running
  /\ SubsOf(s, "error") # {}
  /\ isMounted
  /\ error # <<"live", s>>
  /\ error' = <<"live", s>>
  /\ UNCHANGED <<loadingSessionIdRef, isMounted, isListeningRef, hasActiveSessionRef,
                 unlistenRefs, isLoading, messages, rawJsonlOutput, claudeSessionId,
                 codexRateLimits, notFoundCalls, loads, checks, recs, subs,
                 running, emitted, lastPayload, debugLog>>
  /\ UNCHANGED pureVars

\* claude-complete:<s>: the session's process ends
CompleteEvent(s) ==
  /\ s \in running
  /\ running' = running \ {s}
  /\ IF SubsOf(s, "complete") # {} /\ isMounted
     THEN /\ isLoading' = FALSE
          /\ hasActiveSessionRef' = FALSE
          /\ isListeningRef' = FALSE
          /\ subs' = subs \ unlistenRefs
          /\ unlistenRefs' = {}
     ELSE UNCHANGED <<isLoading, hasActiveSessionRef, isListeningRef, subs, unlistenRefs>>
  /\ UNCHANGED <<loadingSessionIdRef, isMounted, error, messages, rawJsonlOutput,
                 claudeSessionId, codexRateLimits, notFoundCalls, loads, checks,
                 recs, emitted, lastPayload, debugLog>>
  /\ UNCHANGED pureVars

\* ------------------------------------------------------------------------
\* checkForActiveSession
\* ------------------------------------------------------------------------
CheckActive(s) ==
  /\ Len(checks) < MaxChecks
  /\ checks' = Append(checks, [sid |-> s,
                               pc |-> IF EngineOf(s) \in {"codex", "gemini"}
                                      THEN "returned" ELSE "querying"])
  /\ UNCHANGED <<loadingSessionIdRef, isMounted, isListeningRef, hasActiveSessionRef,
                 unlistenRefs, isLoading, error, messages, rawJsonlOutput,
                 claudeSessionId, codexRateLimits, notFoundCalls,
                 loads, recs, subs, running, emitted, lastPayload, debugLog>>
  /\ UNCHANGED pureVars

\* the call with its place in the call order: the invocation also records the
\* number of loadHistory calls made before it
CheckActiveAfterLoads(s) ==
  /\ Len(checks) < MaxChecks
  /\ checks' = Append(checks, [sid |-> s,
                               pc |-> IF EngineOf(s) \in {"codex", "gemini"}
                                      THEN "returned" ELSE "querying",
                               loadsBefore |-> Len(loads)])
  /\ UNCHANGED <<loadingSessionIdRef, isMounted, isListeningRef, hasActiveSessionRef,
                 unlistenRefs, isLoading, error, messages, rawJsonlOutput,
                 claudeSessionId, codexRateLimits, notFoundCalls,
                 loads, recs, subs, running, emitted, lastPayload, debugLog>>
  /\ UNCHANGED pureVars

CheckResolved_NoRaceGuard(c) ==
  LET cur == checks[c].sid IN
  /\ checks[c].pc = "querying"
  /\ checks' = [checks EXCEPT ![c].pc = "done"]
  /\ IF cur \in running
     THEN /\ Len(recs) < MaxReconnects
          /\ ReconnectEntry(cur, cur)
     ELSE UNCHANGED <<recs, subs, unlistenRefs, claudeSessionId, isListeningRef>>
  /\ UNCHANGED <<loadingSessionIdRef, isMounted, hasActiveSessionRef, isLoading,
                 error, messages, rawJsonlOutput, codexRateLimits, notFoundCalls,
                 loads, running, emitted, lastPayload, debugLog>>
  /\ UNCHANGED pureVars

\* api.listRunningClaudeSessions() resolves: race guard, then
\* setClaudeSessionId(session.id) and reconnectToSession(session.id)
CheckResolved(c) ==
  LET cur == checks[c].sid IN
  /\ checks[c].pc = "querying"
  /\ checks' = [checks EXCEPT ![c].pc = "done"]
  /\ IF loadingSessionIdRef = cur /\ cur \in running
     THEN /\ Len(recs) < MaxReconnects
          /\ ReconnectEntry(cur, cur)
     ELSE UNCHANGED <<recs, subs, unlistenRefs, claudeSessionId, isListeningRef>>
  /\ UNCHANGED <<loadingSessionIdRef, isMounted, hasActiveSessionRef, isLoading,
                 error, messages, rawJsonlOutput, codexRateLimits, notFoundCalls,
                 loads, running, emitted, lastPayload, debugLog>>
  /\ UNCHANGED pureVars

\* api.listRunningClaudeSessions() rejects: logged and swallowed
CheckFailed(c) ==
  /\ checks[c].pc = "querying"
  /\ checks' = [checks EXCEPT ![c].pc = "failed"]
  /\ UNCHANGED <<loadingSessionIdRef, isMounted, isListeningRef, hasActiveSessionRef,
                 unlistenRefs, isLoading, error, messages, rawJsonlOutput,
                 claudeSessionId, codexRateLimits, notFoundCalls,
                 loads, recs, subs, running, emitted, lastPayload, debugLog>>
  /\ UNCHANGED pureVars

\* the component unmounts (isMountedRef.current = false)
Unmount ==
  /\ isMounted
  /\ isMounted' = FALSE
  /\ UNCHANGED <<loadingSessionIdRef, isListeningRef, hasActiveSessionRef,
                 unlistenRefs, isLoading, error, messages, rawJsonlOutput,
                 claudeSessionId, codexRateLimits, notFoundCalls,
                 loads, checks, recs, subs, running, emitted, lastPayload, debugLog>>
  /\ UNCHANGED pureVars

\* ------------------------------------------------------------------------
\* Specification of the session lifecycle
\* ------------------------------------------------------------------------
LiveSessions == {"s1", "s2"}

LifeStart ==
  /\ loadingSessionIdRef = Null
  /\ isMounted = TRUE
  /\ isListeningRef = FALSE
  /\ hasActiveSessionRef = FALSE
  /\ unlistenRefs = {}
  /\ isLoading = FALSE
  /\ error = NoError
  /\ messages = <<>>
  /\ rawJsonlOutput = <<>>
  /\ claudeSessionId = Null
  /\ codexRateLimits = NoLimits
  /\ notFoundCalls = 0
  /\ loads = <<>>
  /\ checks = <<>>
  /\ recs = <<>>
  /\ subs = {}
  /\ running = LiveSessions
  /\ emitted = [s \in SessionIds |-> IF s = "s5" THEN FinishedLen ELSE 1]
  /\ lastPayload = NoPayload
  /\ debugLog = <<>>

\* the variables of the pure functions while they are not exercised
BillIdle == billMessages = <<>> /\ billResult = <<>>

GrpIdle == grpMessages = <<>> /\ grpResult = <<>> /\ grpHidden = <<>>

UsageIdle == geminiTokens = <<>> /\ geminiUsage = <<>>

AdapterIdle == geminiDetail = <<>> /\ geminiConverted = <<>>

Init == LifeStart /\ BillIdle /\ GrpIdle /\ UsageIdle /\ AdapterIdle

\* history loading under rapid session switching
Next ==
  \/ \E s \in SessionIds : LoadHistory(s)
  \/ \E i \in 1..Len(loads) : LoadResolved(i)
  \/ \E i \in 1..Len(loads), err \in ErrorMessages : LoadFailed(i, err)
  \/ \E s \in SessionIds : OutputEvent(s, TRUE)
  \/ Unmount

Spec == Init /\ [][Next]_vars

\* the outcomes of history loads alone, no live event in between; one
\* running primary session stands for both
OutcomeSessions == SessionIds \ {"s2"}

OutcomeNext ==
  \/ \E s \in OutcomeSessions : LoadHistory(s)
  \/ \E i \in 1..Len(loads) : LoadResolved(i)
  \/ \E i \in 1..Len(loads), err \in ErrorMessages : LoadFailed(i, err)
  \/ Unmount

SpecOutcome == Init /\ [][OutcomeNext]_vars

\* the live listener set: reconnect calls, registrations and live events;
\* reconnects go to the running sessions and to the finished one
ListenTargets == LiveSessions \cup {"s5"}

ListenNext ==
  \/ \E s \in ListenTargets : Reconnect(s)
  \/ \E r \in 1..Len(recs) : Listen(r)
  \/ \E r \in 1..Len(recs) : ReconnectFinish(r)
  \/ \E s \in SessionIds, wellFormed \in BOOLEAN : OutputEvent(s, wellFormed)
  \/ \E s \in SessionIds : ErrorEvent(s)
  \/ \E s \in SessionIds : CompleteEvent(s)
  \/ Unmount

SpecListen == Init /\ [][ListenNext]_vars

\* session switching: load, active check and reconnect of the live sessions
SwitchNext ==
  \/ \E s \in LiveSessions : Len(loads) < 2 /\ LoadHistory(s)
  \/ \E i \in 1..Len(loads) : LoadResolved(i)
  \/ \E s \in LiveSessions : CheckActive(s)
  \/ \E c \in 1..Len(checks) : CheckResolved(c)
  \/ \E c \in 1..Len(checks) : CheckFailed(c)
  \/ \E r \in 1..Len(recs) : Listen(r)
  \/ \E r \in 1..Len(recs) : ReconnectFinish(r)
  \/ \E s \in SessionIds : OutputEvent(s, TRUE)
  \/ \E s \in SessionIds : CompleteEvent(s)

SpecSwitch == Init /\ [][SwitchNext]_vars

\* the active check alone: session requests, checks of any engine, the
\* registrations they start and the completion of running sessions
CheckNext ==
  \/ \E s \in SessionIds : Len(loads) < 2 /\ LoadHistory(s)
  \/ \E s \in SessionIds : CheckActive(s)
  \/ \E c \in 1..Len(checks) : CheckResolved(c)
  \/ \E c \in 1..Len(checks) : CheckFailed(c)
  \/ \E r \in 1..Len(recs) : Listen(r)
  \/ \E r \in 1..Len(recs) : ReconnectFinish(r)
  \/ \E s \in SessionIds : CompleteEvent(s)

SpecCheck == Init /\ [][CheckNext]_vars

\* history loads of a component that stays mounted and attaches no live
\* session; the fetch of every invocation eventually resolves or rejects
FairSessions == {"s1", "s2"}

Settles(i) ==
  /\ i <= Len(loads)
  /\ (LoadResolved(i) \/ \E err \in ErrorMessages : LoadFailed(i, err))

FairNext ==
  \/ \E s \in FairSessions : LoadHistory(s)
  \/ \E i \in 1..Len(loads) : LoadResolved(i)
  \/ \E i \in 1..Len(loads), err \in ErrorMessages : LoadFailed(i, err)

SpecFair == Init /\ [][FairNext]_vars /\ \A i \in 1..MaxLoads : WF_vars(Settles(i))

\* a check overtaken by session switches: loads and checks of the live
\* sessions in any order, the registrations the checks start, completions
StaleNext ==
  \/ \E s \in LiveSessions : Len(loads) < 2 /\ LoadHistory(s)
  \/ \E s \in LiveSessions : CheckActiveAfterLoads(s)
  \/ \E c \in 1..Len(checks) : CheckResolved(c)
  \/ \E c \in 1..Len(checks) : CheckFailed(c)
  \/ \E r \in 1..Len(recs) : Listen(r)
  \/ \E r \in 1..Len(recs) : ReconnectFinish(r)
  \/ \E s \in LiveSessions : CompleteEvent(s)

SpecStale == Init /\ [][StaleNext]_vars

\* ------------------------------------------------------------------------
\* Billing ledger: aggregateSessionCost
\* ------------------------------------------------------------------------
MaxBillMsgs == 3

\* an absent string field / an absent timestampMs
None == "none"
Undefined == -1

\* token records <<input, output, cache_read, cache_creation>>
Tok(i, o, r, c) == [input_tokens |-> i, output_tokens |-> o,
                    cache_read_tokens |-> r, cache_creation_tokens |-> c]
ZeroTok == Tok(0, 0, 0, 0)

\* a canonical message as the aggregator reads it
BillMsg(engine, type, usage, itemType, nestedId, id, uuid, timestamp) ==
  [engine |-> engine, type |-> type, usage |-> usage, codexItemType |-> itemType,
   nestedId |-> nestedId, id |-> id, uuid |-> uuid, timestamp |-> timestamp,
   model |-> None, receivedAt |-> None,
   engine_metadata |-> IF itemType # None THEN "codex" ELSE None]

\* the same message with a receivedAt field
Received(m, receivedAt) == [m EXCEPT !.receivedAt = receivedAt]

\* the same message without an engine field, carrying codexMetadata or
\* geminiMetadata (provider 'gemini') instead, or neither
Untagged(m, metadata) == [m EXCEPT !.engine = None, !.engine_metadata = metadata]

NoUsage == <<>>

\* the messages the scanned sequences are drawn from
DedupFamily ==
  {BillMsg("claude", "assistant", <<Tok(1, 0, 2, 0)>>, None, "a", None, None, ts) :
     ts \in {None, "T1", "T2"}}
  \cup
  {BillMsg("claude", "assistant", <<Tok(2, 1, 1, 1)>>, None, "a", None, None, ts) :
     ts \in {None, "T1"}}
  \cup
  {BillMsg("claude", "assistant", <<Tok(0, 2, 0, 1)>>, None, "a", None, None, "T1")}

OtherKeys ==
  {BillMsg("claude", "assistant", <<Tok(1, 0, 2, 0)>>, None, None, "a", None, None),
   BillMsg("claude", "assistant", <<Tok(0, 2, 0, 1)>>, None, None, None, "a", "T1"),
   BillMsg("claude", "assistant", <<Tok(1, 0, 2, 0)>>, None, None, None, None, "T1"),
   BillMsg("claude", "assistant", <<Tok(0, 2, 0, 1)>>, None, None, None, None, "bad"),
   BillMsg("claude", "assistant", <<Tok(2, 1, 1, 1)>>, None, None, None, None, None),
   BillMsg("claude", "assistant", <<ZeroTok>>, None, "a", None, None, "T2")}

OtherEngines ==
  {BillMsg("claude", "user", <<Tok(1, 0, 2, 0)>>, None, "a", None, None, "T1"),
   BillMsg("codex", "system", <<Tok(1, 0, 2, 0)>>, None, None, None, None, "T2"),
   BillMsg("codex", "system", <<Tok(2, 1, 1, 1)>>, "thread_token_usage_updated",
           None, None, None, "T2"),
   BillMsg("gemini", "result", <<Tok(0, 2, 0, 1)>>, None, None, None, None, "T1")}

BillUniverse == DedupFamily \cup OtherKeys \cup OtherEngines

\* getEngineType: the engine field, else the provider metadata, else claude
getEngineType(m) ==
  IF m.engine # None THEN m.engine
  ELSE IF m.engine_metadata = "codex" THEN "codex"
  ELSE IF m.engine_metadata = "gemini" THEN "gemini"
  ELSE "claude"

\* tokenExtractor.extract: the four canonical counts, 0 when absent
TokenExtract(m) == IF m.usage = NoUsage THEN ZeroTok ELSE m.usage[1]

\* the total with the cache-creation count forgotten
calculateTotalTokens_NoCacheCreation(t) ==
  t.input_tokens + t.output_tokens + t.cache_read_tokens

calculateTotalTokens(t) ==
  t.input_tokens + t.output_tokens + t.cache_creation_tokens + t.cache_read_tokens

\* typeof x === 'string' && x.trim() !== '' (" " stands for the strings of
\* white space only)
NonBlank(x) == x # None /\ x # "" /\ x # " "

\* message.timestamp ?? message.receivedAt
TimestampOrReceivedAt(m) == IF m.timestamp # None THEN m.timestamp ELSE m.receivedAt

\* the key with the stable unique id asked before the two message ids
getBillingKey_UuidFirst(m, index) ==
  IF NonBlank(m.uuid) THEN <<"uuid", m.uuid>>
  ELSE IF NonBlank(m.nestedId) THEN <<"message", m.nestedId>>
  ELSE IF NonBlank(m.id) THEN <<"message", m.id>>
  ELSE IF NonBlank(TimestampOrReceivedAt(m)) THEN <<"time", TimestampOrReceivedAt(m)>>
  ELSE <<"index", index>>

getBillingKey(m, index) ==
  IF NonBlank(m.nestedId) THEN <<"message", m.nestedId>>
  ELSE IF NonBlank(m.id) THEN <<"message", m.id>>
  ELSE IF NonBlank(m.uuid) THEN <<"uuid", m.uuid>>
  ELSE IF NonBlank(TimestampOrReceivedAt(m)) THEN <<"time", TimestampOrReceivedAt(m)>>
  ELSE <<"index", index>>

\* Date.parse: epoch milliseconds, Undefined for an unparseable string
DateParse(str) ==
  CASE str = "T1" -> 1000
    [] str = "T2" -> 2000
    [] OTHER -> Undefined

\* the first candidate that is a non-blank string and parses
extractTimestamp(m) ==
  IF NonBlank(m.timestamp) /\ DateParse(m.timestamp) # Undefined
  THEN [timestamp |-> m.timestamp, timestampMs |-> DateParse(m.timestamp)]
  ELSE IF NonBlank(m.receivedAt) /\ DateParse(m.receivedAt) # Undefined
  THEN [timestamp |-> m.receivedAt, timestampMs |-> DateParse(m.receivedAt)]
  ELSE [timestamp |-> None, timestampMs |-> Undefined]

MODEL_FALLBACK == "claude-sonnet-4.5"
CODEX_MODEL_FALLBACK == "codex-mini-latest"
GEMINI_MODEL_FALLBACK == "gemini-2.5-pro"

getModelName(m, engine) ==
  IF NonBlank(m.model) THEN m.model
  ELSE IF engine = "codex" THEN CODEX_MODEL_FALLBACK
  ELSE IF engine = "gemini" THEN GEMINI_MODEL_FALLBACK
  ELSE MODEL_FALLBACK

\* calculateMessageCost: the pricing function, pure in (tokens, model, engine)
calculateMessageCost(t, model, engine) ==
  (IF engine = "claude" THEN 3 ELSE 1) * (t.input_tokens + 2 * t.output_tokens)
    + t.cache_read_tokens + t.cache_creation_tokens

\* the rule without the skip of the Codex cumulative item
IsBillable_NoSkip(m) ==
  LET engine == getEngineType(m) IN
  \/ engine = "claude" /\ m.type = "assistant"
  \/ engine = "codex" /\ m.type = "system" /\ m.usage # NoUsage
  \/ engine = "gemini" /\ m.type = "result" /\ m.usage # NoUsage

\* the engine-specific billability rule, with the Codex cumulative item skipped
IsBillable(m) ==
  LET engine == getEngineType(m) IN
  /\ ~(/\ engine = "codex"
       /\ m.engine_metadata = "codex"
       /\ m.codexItemType = "thread_token_usage_updated")
  /\ \/ engine = "claude" /\ m.type = "assistant"
     \/ engine = "codex" /\ m.type = "system" /\ m.usage # NoUsage
     \/ engine = "gemini" /\ m.type = "result" /\ m.usage # NoUsage

\* timestampMs ?? 0
OrZero(ms) == IF ms = Undefined THEN 0 ELSE ms

\* no test at all: the candidate scanned last replaces the stored event
Supersedes_LastWins(totalTokenCount, timestampMs, existing) == TRUE

\* the test with a strict timestamp comparison: the first scanned wins a tie
Supersedes_StrictTime(totalTokenCount, timestampMs, existing) ==
  \/ totalTokenCount > existing.totalTokenCount
  \/ /\ totalTokenCount = existing.totalTokenCount
     /\ OrZero(timestampMs) > OrZero(existing.timestampMs)

\* the insert-or-supersede test of the event map
Supersedes(totalTokenCount, timestampMs, existing) ==
  \/ totalTokenCount > existing.totalTokenCount
  \/ /\ totalTokenCount = existing.totalTokenCount
     /\ OrZero(timestampMs) >= OrZero(existing.timestampMs)

\* position of key in the event map (a Map keeps insertion order), 0 if absent
MapIndex(map, key) ==
  IF \E k \in 1..Len(map) : map[k].key = key
  THEN CHOOSE k \in 1..Len(map) : map[k].key = key
  ELSE 0

\* a list push in place of the keyed set
MapSet_AlwaysAppend(map, ev) == Append(map, ev)

\* eventMap.set(key, ev)
MapSet(map, ev) ==
  IF MapIndex(map, ev.key) = 0 THEN Append(map, ev)
  ELSE [map EXCEPT ![MapIndex(map, ev.key)] = ev]

\* the body of messages.forEach for the message at position index (0-based
\* index = position - 1)
ScanMessage(map, m, position) ==
  LET engine == getEngineType(m)
      tokens == TokenExtract(m)
      totalTokenCount == calculateTotalTokens(tokens)
      key == getBillingKey(m, position - 1)
      ts == extractTimestamp(m)
      model == getModelName(m, engine)
      ev == [key |-> key, tokens |-> tokens, model |-> model,
             cost |-> calculateMessageCost(tokens, model, engine),
             timestamp |-> ts.timestamp, timestampMs |-> ts.timestampMs,
             message |-> m, totalTokenCount |-> totalTokenCount,
             order |-> position - 1]
      at == MapIndex(map, key)
  IN
  IF ~IsBillable(m) \/ totalTokenCount = 0 THEN map
  ELSE IF at = 0 \/ Supersedes(totalTokenCount, ts.timestampMs, map[at])
       THEN MapSet(map, ev)
       ELSE map

RECURSIVE ScanAll(_, _, _)
ScanAll(msgs, position, map) ==
  IF position > Len(msgs) THEN map
  ELSE ScanAll(msgs, position + 1, ScanMessage(map, msgs[position], position))

\* the comparator without the rule that a timed event goes first
CompareEvents_OrderOnly(a, b) ==
  IF a.timestampMs # Undefined /\ b.timestampMs # Undefined
       /\ a.timestampMs # b.timestampMs
  THEN a.timestampMs - b.timestampMs
  ELSE a.order - b.order

\* the comparator of the final sort
CompareEvents(a, b) ==
  IF a.timestampMs # Undefined /\ b.timestampMs # Undefined
       /\ a.timestampMs # b.timestampMs
  THEN a.timestampMs - b.timestampMs
  ELSE IF a.timestampMs # Undefined THEN -1
  ELSE IF b.timestampMs # Undefined THEN 1
  ELSE a.order - b.order

\* Array.prototype.sort as a stable insertion sort under the comparator
RECURSIVE InsertSorted(_, _)
InsertSorted(sorted, x) ==
  IF sorted = <<>> THEN <<x>>
  ELSE IF CompareEvents(sorted[Len(sorted)], x) > 0
       THEN Append(InsertSorted(SubSeq(sorted, 1, Len(sorted) - 1), x),
                   sorted[Len(sorted)])
       ELSE Append(sorted, x)

RECURSIVE SortEvents(_)
SortEvents(evs) ==
  IF evs = <<>> THEN <<>>
  ELSE InsertSorted(SortEvents(SubSeq(evs, 1, Len(evs) - 1)), evs[Len(evs)])

\* the same sort by an engine that hands the comparator the new element
\* first: the comparator answers -1 both ways for two equal timestamps, so
\* the order of such a pair is the engine's
RECURSIVE InsertSortedSwapped(_, _)
InsertSortedSwapped(sorted, x) ==
  IF sorted = <<>> THEN <<x>>
  ELSE IF CompareEvents(x, sorted[Len(sorted)]) < 0
       THEN Append(InsertSortedSwapped(SubSeq(sorted, 1, Len(sorted) - 1), x),
                   sorted[Len(sorted)])
       ELSE Append(sorted, x)

RECURSIVE SortEventsSwapped(_)
SortEventsSwapped(evs) ==
  IF evs = <<>> THEN <<>>
  ELSE InsertSortedSwapped(SortEventsSwapped(SubSeq(evs, 1, Len(evs) - 1)),
                           evs[Len(evs)])

\* events.forEach(event => totals.X += ...)
RECURSIVE SumTotals(_, _, _)
SumTotals(evs, k, totals) ==
  IF k > Len(evs) THEN totals
  ELSE SumTotals(evs, k + 1,
         [totalCost |-> totals.totalCost + evs[k].cost,
          inputTokens |-> totals.inputTokens + evs[k].tokens.input_tokens,
          outputTokens |-> totals.outputTokens + evs[k].tokens.output_tokens,
          cacheReadTokens |-> totals.cacheReadTokens + evs[k].tokens.cache_read_tokens,
          cacheWriteTokens |-> totals.cacheWriteTokens
                                 + evs[k].tokens.cache_creation_tokens,
          totalTokens |-> totals.totalTokens + calculateTotalTokens(evs[k].tokens)])

ZeroTotals == [totalCost |-> 0, totalTokens |-> 0, inputTokens |-> 0,
               outputTokens |-> 0, cacheReadTokens |-> 0, cacheWriteTokens |-> 0]

SetMin(S) == CHOOSE x \in S : \A y \in S : x <= y
SetMax(S) == CHOOSE x \in S : \A y \in S : x >= y

aggregateSessionCost(msgs) ==
  LET events == SortEvents(ScanAll(msgs, 1, <<>>))
      timestampValues == {events[k].timestampMs : k \in 1..Len(events)} \ {Undefined}
  IN [totals |-> SumTotals(events, 1, ZeroTotals),
      events |-> events,
      assistantMessageCount |-> Len(events),
      firstEventTimestampMs |-> IF timestampValues = {} THEN Undefined
                                ELSE SetMin(timestampValues),
      lastEventTimestampMs |-> IF timestampValues = {} THEN Undefined
                               ELSE SetMax(timestampValues)]

\* all sequences over S of length at most n
SeqsUpTo(S, n) == UNION {[1..k -> S] : k \in 0..n}

BillInit ==
  /\ billMessages \in SeqsUpTo(BillUniverse, MaxBillMsgs)
  /\ billResult = <<>>
  /\ LifeStart /\ GrpIdle /\ UsageIdle /\ AdapterIdle

\* one call of aggregateSessionCost on the sequence
Aggregate ==
  /\ billResult = <<>>
  /\ billResult' = <<aggregateSessionCost(billMessages)>>
  /\ UNCHANGED <<billMessages, grpVars, gemVars, lifeVars>>

BillNext == Aggregate

SpecBilling == BillInit /\ [][BillNext]_vars

\* the messages of the engine rules: every engine and kind, engines told by
\* the engine field or by the provider metadata, and candidates that tie
ScanUniverse ==
  {BillMsg("claude", "assistant", <<Tok(1, 0, 2, 0)>>, None, "a", None, None, "T1"),
   BillMsg("claude", "assistant", <<Tok(0, 2, 0, 1)>>, None, "a", None, None, "T1"),
   BillMsg("claude", "assistant", <<Tok(2, 1, 1, 1)>>, None, "a", None, None, None),
   BillMsg("claude", "assistant", <<Tok(1, 0, 2, 0)>>, None, None, None, None, None),
   BillMsg("claude", "user", <<Tok(1, 0, 2, 0)>>, None, None, None, "b", "T1"),
   BillMsg("codex", "system", <<Tok(1, 0, 2, 0)>>, None, None, None, "c", "T2"),
   BillMsg("codex", "system", <<Tok(2, 1, 1, 1)>>, "thread_token_usage_updated",
           None, None, "c", "T2"),
   BillMsg("gemini", "result", <<Tok(0, 2, 0, 1)>>, None, None, None, "g", "T1"),
   BillMsg("other", "assistant", <<Tok(1, 0, 2, 0)>>, None, None, None, "o", "T1"),
   Untagged(BillMsg("codex", "system", <<Tok(0, 2, 0, 1)>>, "token_count",
                    None, None, "d", "T1"), "codex"),
   Untagged(BillMsg("codex", "system", <<Tok(2, 1, 1, 1)>>,
                    "thread_token_usage_updated", None, None, "d", "T2"), "codex"),
   Untagged(BillMsg("gemini", "result", <<Tok(1, 0, 2, 0)>>, None,
                    None, None, "h", "T2"), "gemini"),
   Untagged(BillMsg("claude", "assistant", <<Tok(0, 2, 0, 1)>>, None,
                    None, None, "e", "T2"), None)}

ScanInit ==
  /\ billMessages \in SeqsUpTo(ScanUniverse, MaxBillMsgs)
  /\ billResult = <<>>
  /\ LifeStart /\ GrpIdle /\ UsageIdle /\ AdapterIdle

SpecScan == ScanInit /\ [][BillNext]_vars

\* the messages of the key sources: billable messages whose nested id, id,
\* uuid and timestamp are each absent, blank or present
KeyMsg(nestedId, id, uuid, timestamp) ==
  BillMsg("claude", "assistant", <<Tok(1, 0, 2, 0)>>, None, nestedId, id, uuid, timestamp)

KeyUniverse ==
  {KeyMsg("n", "i", "u", "T1"),
   KeyMsg("n", None, None, None),
   KeyMsg(" ", "i", "u", "T1"),
   KeyMsg(None, "i", None, "T2"),
   KeyMsg("", " ", "u", "T1"),
   KeyMsg(None, None, "u", None),
   KeyMsg(None, "", " ", "T1"),
   KeyMsg(" ", None, "", "bad"),
   KeyMsg(None, None, None, "T2"),
   Received(KeyMsg(None, None, None, None), "T1"),
   Received(KeyMsg(None, None, None, ""), "T1"),
   KeyMsg(None, None, None, " "),
   KeyMsg(" ", "", " ", ""),
   KeyMsg(None, None, None, None)}

KeyInit ==
  /\ billMessages \in SeqsUpTo(KeyUniverse, MaxBillMsgs)
  /\ billResult = <<>>
  /\ LifeStart /\ GrpIdle /\ UsageIdle /\ AdapterIdle

SpecKeys == KeyInit /\ [][BillNext]_vars

\* the usage record a message of a history carries: the assistant and result
\* records, the first slash-command record of the finished session and the
\* message converted from the Codex session's first event
UsageOf(rec) ==
  CASE rec[1] = "s5" /\ rec[2] = 6 -> <<Tok(1, 0, 2, 0)>>
    [] rec[1] = "s5" /\ rec[2] = 8 -> <<Tok(0, 2, 0, 1)>>
    [] rec[1] = "s3" /\ rec[2] = 1 -> <<Tok(2, 1, 1, 1)>>
    [] RawType(rec) \in {"assistant", NoType} -> <<Tok(1, 0, 2, 0)>>
    [] OTHER -> NoUsage

\* the engine field of a message: set by the Codex and Gemini adapters, absent
\* on the records of a primary session
EngineTag(rec) == IF EngineOf(rec[1]) = "claude" THEN None ELSE EngineOf(rec[1])

\* a message of the published sequence as the aggregator reads it
AsBillMsg(m) ==
  BillMsg(EngineTag(m), KindOf(m), UsageOf(m), None, None, None, None, None)

\* ------------------------------------------------------------------------
\* Message grouping: groupMessages
\* ------------------------------------------------------------------------
MaxGrpMsgs == 4

\* content blocks
TextBlock(text) == [type |-> "text", text |-> text, name |-> None, id |-> None,
                    subagent_type |-> None]
ToolUse(name, id, subagentType) ==
  [type |-> "tool_use", text |-> None, name |-> name, id |-> id,
   subagent_type |-> subagentType]
ToolResult == [type |-> "tool_result", text |-> None, name |-> None, id |-> None,
               subagent_type |-> None]
ThinkingBlock == [type |-> "thinking", text |-> None, name |-> None, id |-> None,
                  subagent_type |-> None]

GrpMsg(type, content, parent) ==
  [type |-> type, content |-> content, parent_tool_use_id |-> parent,
   isSidechain |-> FALSE]

\* a message marked as side chain only: isSidechain true, no parent id
SidechainMsg(type, content) == [GrpMsg(type, content, None) EXCEPT !.isSidechain = TRUE]

\* the message shapes the grouped sequences are drawn from
SpawnShapes ==
  {GrpMsg("assistant", <<ToolUse("Task", "t1", "explorer"), ToolUse("task", "t2", None)>>,
          None)}

SubagentShapes ==
  {GrpMsg("assistant", <<TextBlock("hi")>>, "t1"),
   GrpMsg("user", <<ToolResult>>, "t1"),
   GrpMsg("assistant", <<ToolUse("Read", "r1", None)>>, "t2")}

PlainShapes ==
  {GrpMsg("assistant", <<ToolUse("Read", "r1", None)>>, None),
   GrpMsg("assistant", <<TextBlock("hi")>>, None),
   GrpMsg("assistant", <<ThinkingBlock>>, None),
   GrpMsg("assistant", <<ThinkingBlock, ToolUse("Read", "r1", None)>>, None),
   GrpMsg("assistant", <<TextBlock(" "), ToolUse("Read", "r1", None)>>, None),
   GrpMsg("assistant", <<TextBlock("hi"), ToolUse("Read", "r1", None)>>, None),
   GrpMsg("thinking", <<TextBlock("hi")>>, None)}

SidechainShapes == {SidechainMsg("assistant", <<ToolUse("Read", "r1", None)>>)}

GrpUniverse == SpawnShapes \cup SubagentShapes \cup PlainShapes \cup SidechainShapes

\* String.prototype.toLowerCase on the tool names in use
ToLowerCase(name) ==
  CASE name = "Task" -> "task"
    [] name = "Read" -> "read"
    [] OTHER -> name

\* String.prototype.trim on the texts in use
Trim(text) == IF text = " " THEN "" ELSE text

IsTaskBlock(b) == b.type = "tool_use" /\ b.name # None /\ ToLowerCase(b.name) = "task"

hasTaskToolCall(m) ==
  /\ m.type = "assistant"
  /\ \E k \in 1..Len(m.content) : IsTaskBlock(m.content[k])

\* the ids of the Task calls of the message, in block order, blank ids dropped
IsSpawnWithId(b) == IsTaskBlock(b) /\ b.id # None /\ b.id # ""

extractTaskToolUseIds(m) ==
  IF ~hasTaskToolCall(m) THEN <<>>
  ELSE LET calls == SelectSeq(m.content, IsSpawnWithId)
       IN [k \in 1..Len(calls) |-> calls[k].id]

SeqToSet(q) == {q[k] : k \in 1..Len(q)}

\* the subagent_type of the Task call with this id (extractTaskToolDetails)
extractTaskToolDetails(m, taskId) ==
  LET ks == {k \in 1..Len(m.content) :
               IsSpawnWithId(m.content[k]) /\ m.content[k].id = taskId}
  IN m.content[SetMax(ks)].subagent_type

isSubagentMessage(m) == (m.parent_tool_use_id # None /\ m.parent_tool_use_id # "") \/ m.isSidechain

getParentToolUseId(m) ==
  IF m.parent_tool_use_id # None /\ m.parent_tool_use_id # "" THEN m.parent_tool_use_id
  ELSE None

HasBlock(m, type) == \E k \in 1..Len(m.content) : m.content[k].type = type

HasVisibleText(m) ==
  \E k \in 1..Len(m.content) :
    /\ m.content[k].type = "text"
    /\ m.content[k].text # None
    /\ Trim(m.content[k].text) # ""

\* "tool", "thinking" or None (not aggregable)
getTechnicalMessageType(m) ==
  IF m.type = "thinking" THEN "thinking"
  ELSE IF m.type # "assistant" THEN None
  ELSE IF HasVisibleText(m) THEN None
  ELSE IF HasBlock(m, "thinking") /\ (HasBlock(m, "tool_use") \/ HasBlock(m, "tool_result"))
       THEN None
  ELSE IF HasBlock(m, "thinking") THEN "thinking"
  ELSE IF HasBlock(m, "tool_use") \/ HasBlock(m, "tool_result") THEN "tool"
  ELSE None

\* a message object of the input array: its shape and its array index
Ref(msgs, i) == [index |-> i, m |-> msgs[i + 1]]

\* pass 1: taskToolUseMap, the index recorded for a Task id (the last set wins)
TaskIds(msgs) == UNION {SeqToSet(extractTaskToolUseIds(msgs[p])) : p \in 1..Len(msgs)}

TaskIndex(msgs, taskId) ==
  SetMax({i \in 0..(Len(msgs) - 1) : taskId \in SeqToSet(extractTaskToolUseIds(msgs[i + 1]))})

\* the collection with any parent id accepted in place of the Task's own id
SubagentIndices_AnyParent(msgs, taskId) ==
  {i \in (TaskIndex(msgs, taskId) + 1)..(Len(msgs) - 1) :
     getParentToolUseId(msgs[i + 1]) # None}

\* pass 2: the indices of the messages collected for the Task id
SubagentIndices(msgs, taskId) ==
  {i \in (TaskIndex(msgs, taskId) + 1)..(Len(msgs) - 1) :
     getParentToolUseId(msgs[i + 1]) = taskId}

\* the elements of a set of indices as message objects in ascending order
RECURSIVE RefsInOrder(_, _)
RefsInOrder(msgs, S) ==
  IF S = {} THEN <<>>
  ELSE Append(RefsInOrder(msgs, S \ {SetMax(S)}), Ref(msgs, SetMax(S)))

HasSubagentGroup(msgs, taskId) ==
  taskId \in TaskIds(msgs) /\ SubagentIndices(msgs, taskId) # {}

SubagentGroupOf(msgs, taskId) ==
  [id |-> taskId,
   taskMessage |-> Ref(msgs, TaskIndex(msgs, taskId)),
   taskToolUseId |-> taskId,
   subagentMessages |-> RefsInOrder(msgs, SubagentIndices(msgs, taskId)),
   startIndex |-> TaskIndex(msgs, taskId),
   endIndex |-> SetMax(SubagentIndices(msgs, taskId) \cup {TaskIndex(msgs, taskId)}),
   subagentType |-> extractTaskToolDetails(msgs[TaskIndex(msgs, taskId) + 1], taskId)]

\* processedIndices: messages whose parent id has a group
IsProcessed(msgs, i) ==
  /\ getParentToolUseId(msgs[i + 1]) # None
  /\ HasSubagentGroup(msgs, getParentToolUseId(msgs[i + 1]))

\* the three node kinds of the output
NoGroup == [id |-> None]
NormalNode(ref) ==
  [type |-> "normal", message |-> ref, index |-> ref.index, group |-> NoGroup,
   messages |-> <<>>]
SubagentNode(group) ==
  [type |-> "subagent", message |-> <<>>, index |-> -1, group |-> group,
   messages |-> <<>>]
AggregatedNode(refs, startIndex) ==
  [type |-> "aggregated", message |-> <<>>, index |-> startIndex, group |-> NoGroup,
   messages |-> refs]

\* pass 3, the Task ids of one message: a node per id with a group, once
RECURSIVE EmitTaskGroups(_, _, _, _)
EmitTaskGroups(msgs, taskIds, k, acc) ==
  IF k > Len(taskIds) THEN acc
  ELSE IF HasSubagentGroup(msgs, taskIds[k]) /\ taskIds[k] \notin acc.added
       THEN EmitTaskGroups(msgs, taskIds, k + 1,
              [nodes |-> Append(acc.nodes, SubagentNode(SubagentGroupOf(msgs, taskIds[k]))),
               added |-> acc.added \cup {taskIds[k]}])
       ELSE EmitTaskGroups(msgs, taskIds, k + 1, acc)

\* pass 3: the intermediate groups
RECURSIVE BuildIntermediate(_, _, _)
BuildIntermediate(msgs, i, acc) ==
  IF i >= Len(msgs) THEN acc.nodes
  ELSE LET taskIds == extractTaskToolUseIds(msgs[i + 1]) IN
       IF IsProcessed(msgs, i) THEN BuildIntermediate(msgs, i + 1, acc)
       ELSE IF Len(taskIds) > 0
       THEN LET emitted1 == EmitTaskGroups(msgs, taskIds, 1, acc) IN
            IF \E k \in 1..Len(taskIds) : HasSubagentGroup(msgs, taskIds[k])
            THEN BuildIntermediate(msgs, i + 1, emitted1)
            ELSE BuildIntermediate(msgs, i + 1,
                   [emitted1 EXCEPT !.nodes = Append(@, NormalNode(Ref(msgs, i)))])
       ELSE BuildIntermediate(msgs, i + 1,
              [acc EXCEPT !.nodes = Append(@, NormalNode(Ref(msgs, i)))])

IntermediateGroups(msgs) == BuildIntermediate(msgs, 0, [nodes |-> <<>>, added |-> {}])

\* currentAggregation: None-typed while no aggregation is open
NoAggregation == [messages |-> <<>>, startIndex |-> -1, aggType |-> None]

Flush(final, cur) ==
  IF cur.aggType = None THEN final
  ELSE Append(final, AggregatedNode(cur.messages, cur.startIndex))

\* pass 4: merge runs of technical messages of one kind
RECURSIVE Compact(_, _, _, _)
Compact(inter, k, final, cur) ==
  IF k > Len(inter) THEN Flush(final, cur)
  ELSE LET node == inter[k] IN
       IF node.type = "subagent"
       THEN Compact(inter, k + 1, Append(Flush(final, cur), node), NoAggregation)
       ELSE LET msgType == getTechnicalMessageType(node.message.m) IN
            IF msgType # None
            THEN IF cur.aggType = msgType
                 THEN Compact(inter, k + 1, final,
                        [cur EXCEPT !.messages = Append(@, node.message)])
                 ELSE Compact(inter, k + 1, Flush(final, cur),
                        [messages |-> <<node.message>>, startIndex |-> node.index,
                         aggType |-> msgType])
            ELSE Compact(inter, k + 1, Append(Flush(final, cur), node), NoAggregation)

groupMessages(msgs) == Compact(IntermediateGroups(msgs), 1, <<>>, NoAggregation)

shouldHideMessage(message, groups) ==
  IF isSubagentMessage(message) /\ getParentToolUseId(message) # None
  THEN \E k \in 1..Len(groups) :
         /\ groups[k].type = "subagent"
         /\ groups[k].group.taskToolUseId = getParentToolUseId(message)
  ELSE FALSE

GrpInit ==
  /\ grpMessages \in SeqsUpTo(GrpUniverse, MaxGrpMsgs)
  /\ grpResult = <<>>
  /\ grpHidden = <<>>
  /\ LifeStart /\ BillIdle /\ UsageIdle /\ AdapterIdle

\* one call of groupMessages on the sequence
Group ==
  /\ grpResult = <<>>
  /\ grpResult' = <<groupMessages(grpMessages)>>
  /\ UNCHANGED <<grpMessages, grpHidden, billVars, gemVars, lifeVars>>

\* the consumer asks shouldHideMessage for every message of the sequence
Hide ==
  /\ grpResult # <<>>
  /\ grpHidden = <<>>
  /\ grpHidden' = <<[k \in 1..Len(grpMessages) |->
                       shouldHideMessage(grpMessages[k], grpResult[1])]>>
  /\ UNCHANGED <<grpMessages, grpResult, billVars, gemVars, lifeVars>>

GrpNext == Group \/ Hide

SpecGrouping == GrpInit /\ [][GrpNext]_vars

\* plain messages of every kind: tool activity, reasoning and narrative on
\* assistant, user and thinking messages
KindShapes ==
  {GrpMsg("assistant", <<ToolUse("Read", "r1", None)>>, None),
   GrpMsg("assistant", <<TextBlock("hi")>>, None),
   GrpMsg("assistant", <<ThinkingBlock>>, None),
   GrpMsg("assistant", <<ThinkingBlock, ToolUse("Read", "r1", None)>>, None),
   GrpMsg("user", <<ToolResult>>, None),
   GrpMsg("user", <<TextBlock("hi")>>, None),
   GrpMsg("thinking", <<TextBlock("hi")>>, None)}

KindInit ==
  /\ grpMessages \in SeqsUpTo(KindShapes, MaxGrpMsgs)
  /\ grpResult = <<>>
  /\ grpHidden = <<>>
  /\ LifeStart /\ BillIdle /\ UsageIdle /\ AdapterIdle

SpecKinds == KindInit /\ [][GrpNext]_vars

\* sequences with a spawn inside a sub-agent conversation: the parallel spawn
\* t1, t2, a message of t1 that itself spawns t3, messages attributed to each
\* of the three ids, and plain messages
NestedShapes ==
  SpawnShapes \cup
  {GrpMsg("assistant", <<ToolUse("Task", "t3", None)>>, "t1"),
   GrpMsg("assistant", <<TextBlock("hi")>>, "t1"),
   GrpMsg("user", <<ToolResult>>, "t2"),
   GrpMsg("assistant", <<TextBlock("hi")>>, "t3"),
   GrpMsg("assistant", <<ToolUse("Read", "r1", None)>>, None),
   GrpMsg("assistant", <<TextBlock("hi")>>, None)}

NestedInit ==
  /\ grpMessages \in SeqsUpTo(NestedShapes, MaxGrpMsgs)
  /\ grpResult = <<>>
  /\ grpHidden = <<>>
  /\ LifeStart /\ BillIdle /\ UsageIdle /\ AdapterIdle

SpecNested == NestedInit /\ [][GrpNext]_vars

\* ------------------------------------------------------------------------
\* Usage normalizer: toNumber, extractGeminiUsage
\* ------------------------------------------------------------------------
\* JavaScript values of a field of the raw tokens object
Absent == <<"undefined">>
NaN == <<"NaN">>
Garbage == <<"string", "abc">>
Blank == <<"string", "  ">>
Num(n) == <<"number", n>>
\* the decimal string of n
NumStr(n) == <<"numeric string", n>>
JsNull == <<"null">>

\* toNumber: a finite number, or a non-blank string that Number() parses to a
\* finite number, else null
toNumber(value) ==
  IF value[1] = "number" THEN value
  ELSE IF value[1] = "numeric string" THEN Num(value[2])
  ELSE JsNull

\* a ?? b
Coalesce(a, b) == IF a = JsNull THEN b ELSE a

\* a ?? 0, as an integer
OrZeroNum(a) == IF a = JsNull THEN 0 ELSE a[2]

\* the clamp forgotten
MathMax_First(a, b) == a

MathMax(a, b) == IF a >= b THEN a ELSE b

\* the fields a raw tokens object may carry: the direct counts, the three
\* spellings of each component count, and the cache counts of other shapes
RawFields ==
  {"input_tokens", "output_tokens",
   "prompt", "promptTokenCount", "prompt_token_count",
   "candidates", "candidatesTokenCount", "candidates_token_count",
   "thoughts", "thoughtsTokenCount", "thoughts_token_count",
   "tool", "toolUsePromptTokenCount", "tool_use_prompt_token_count",
   "cached", "cachedContentTokenCount", "cached_content_token_count",
   "cache_read_tokens", "cache_creation_tokens", "cached_input_tokens"}

\* the short name alone
FirstNumber_ShortOnly(t, short, camelCase, snake_case) == toNumber(t[short])

\* toNumber(t.a) ?? toNumber(t.b) ?? toNumber(t.c)
FirstNumber(t, short, camelCase, snake_case) ==
  Coalesce(toNumber(t[short]), Coalesce(toNumber(t[camelCase]), toNumber(t[snake_case])))

\* the returned usage; null is the record with present FALSE, and a usage
\* without cached_input_tokens has cached FALSE
NullUsage ==
  [present |-> FALSE, input_tokens |-> 0, output_tokens |-> 0,
   cached |-> FALSE, cached_input_tokens |-> 0]

\* extractGeminiUsage on a tokens object t (a function on RawFields)
ExtractFromObject(t) ==
  LET inputFromStats == toNumber(t["input_tokens"])
      outputFromStats == toNumber(t["output_tokens"])
      prompt == FirstNumber(t, "prompt", "promptTokenCount", "prompt_token_count")
      candidates ==
        FirstNumber(t, "candidates", "candidatesTokenCount", "candidates_token_count")
      thoughts ==
        OrZeroNum(FirstNumber(t, "thoughts", "thoughtsTokenCount", "thoughts_token_count"))
      tool ==
        OrZeroNum(FirstNumber(t, "tool", "toolUsePromptTokenCount",
                              "tool_use_prompt_token_count"))
      cached ==
        OrZeroNum(FirstNumber(t, "cached", "cachedContentTokenCount",
                              "cached_content_token_count"))
      input_tokens ==
        Coalesce(inputFromStats,
                 IF prompt # JsNull THEN Num(prompt[2] + tool) ELSE JsNull)
      output_tokens ==
        Coalesce(outputFromStats,
                 IF candidates # JsNull THEN Num(candidates[2] + thoughts) ELSE JsNull)
  IN
  IF OrZeroNum(input_tokens) <= 0 /\ OrZeroNum(output_tokens) <= 0 /\ cached <= 0
  THEN NullUsage
  ELSE [present |-> TRUE,
        input_tokens |-> MathMax(OrZeroNum(input_tokens), 0),
        output_tokens |-> MathMax(OrZeroNum(output_tokens), 0),
        cached |-> cached > 0,
        cached_input_tokens |-> IF cached > 0 THEN cached ELSE 0]

\* the tokens argument: <<>> for a missing or non-object value, <<t>> else
extractGeminiUsage(tokens) ==
  IF tokens = <<>> THEN NullUsage ELSE ExtractFromObject(tokens[1])

\* a returned usage handed in again as a tokens argument
AsTokens(usage) ==
  IF ~usage.present THEN <<>>
  ELSE <<[f \in RawFields |->
            CASE f = "input_tokens" -> Num(usage.input_tokens)
              [] f = "output_tokens" -> Num(usage.output_tokens)
              [] f = "cached_input_tokens" ->
                   IF usage.cached THEN Num(usage.cached_input_tokens) ELSE Absent
              [] OTHER -> Absent]>>

\* the values of each field among the raw tokens objects
RawValues(f) ==
  CASE f = "input_tokens" -> {Absent, Num(0), Num(2), Num(-1), Garbage}
    [] f = "output_tokens" -> {Absent, Num(0), Num(1), NumStr(3), NaN}
    [] f = "prompt" -> {Absent, Num(4), Blank}
    [] f = "promptTokenCount" -> {Absent, Num(5)}
    [] f = "candidates" -> {Absent, NumStr(2)}
    [] f = "thoughts" -> {Absent, Num(1)}
    [] f = "tool" -> {Absent, Num(1)}
    [] f = "cached" -> {Absent, Num(0), Num(3), Num(-2)}
    [] f = "cache_read_tokens" -> {Absent, Num(0), Num(2)}
    [] f = "cache_creation_tokens" -> {Absent, Num(0), Num(1)}
    [] f = "prompt_token_count" -> {Absent, NumStr(6)}
    [] f = "candidatesTokenCount" -> {Absent, Num(3)}
    [] f = "candidates_token_count" -> {Absent, Num(1), Garbage}
    [] f = "thoughtsTokenCount" -> {Absent, Num(2)}
    [] f = "thoughts_token_count" -> {Absent, Num(1)}
    [] f = "toolUsePromptTokenCount" -> {Absent, Num(2)}
    [] f = "tool_use_prompt_token_count" -> {Absent, NumStr(1)}
    [] f = "cachedContentTokenCount" -> {Absent, Num(0), Num(2)}
    [] f = "cached_content_token_count" -> {Absent, Num(1)}
    [] OTHER -> {Absent}

\* the raw tokens objects of one shape: the four named fields vary, the
\* others are absent
Objects(f1, f2, f3, f4) ==
  {[f \in RawFields |->
      CASE f = f1 -> a [] f = f2 -> b [] f = f3 -> c [] f = f4 -> d
        [] OTHER -> Absent] :
     a \in RawValues(f1), b \in RawValues(f2),
     c \in RawValues(f3), d \in RawValues(f4)}

RawUniverse ==
  Objects("input_tokens", "output_tokens", "prompt", "cached")
    \cup Objects("input_tokens", "prompt", "promptTokenCount", "tool")
    \cup Objects("output_tokens", "candidates", "thoughts", "cached")
    \cup Objects("input_tokens", "output_tokens", "cache_read_tokens",
                 "cache_creation_tokens")
    \cup Objects("prompt_token_count", "toolUsePromptTokenCount",
                 "candidatesTokenCount", "thoughts_token_count")
    \cup Objects("promptTokenCount", "tool_use_prompt_token_count",
                 "candidates_token_count", "thoughtsTokenCount")
    \cup Objects("prompt", "prompt_token_count", "cachedContentTokenCount",
                 "cached_content_token_count")
    \cup Objects("candidates", "candidatesTokenCount", "cached",
                 "cachedContentTokenCount")

UsageInit ==
  /\ geminiTokens \in {<<>>} \cup {<<t>> : t \in RawUniverse}
  /\ geminiUsage = <<>>
  /\ AdapterIdle
  /\ LifeStart /\ BillIdle /\ GrpIdle

\* one call of extractGeminiUsage on the raw value
Normalize ==
  /\ geminiUsage = <<>>
  /\ geminiUsage' = <<extractGeminiUsage(geminiTokens)>>
  /\ UNCHANGED <<geminiTokens, geminiDetail, geminiConverted, billVars, grpVars,
                 lifeVars>>

\* a second call, on the value the first call returned
NormalizeAgain ==
  /\ Len(geminiUsage) = 1
  /\ geminiUsage' = Append(geminiUsage, extractGeminiUsage(AsTokens(geminiUsage[1])))
  /\ UNCHANGED <<geminiTokens, geminiDetail, geminiConverted, billVars, grpVars,
                 lifeVars>>

UsageNext == Normalize \/ NormalizeAgain

SpecUsage == UsageInit /\ [][UsageNext]_vars

\* ------------------------------------------------------------------------
\* Gemini adapter: convertGeminiSessionDetailToClaudeMessages
\* ------------------------------------------------------------------------
MaxTurns == 2

\* a JavaScript string, and the string JSON.stringify makes of a value
Str(text) == <<"string", text>>
JsonStringify(value) == <<"JSON text", value>>

\* toolCall.result: absent, a string, the functionResponse array with an
\* output, or an array without one
FunctionResponse(output) == <<"functionResponse", output>>
OtherArray == <<"array">>

\* x is falsy: undefined or the empty string
Falsy(x) == x = Absent \/ x = Str("")

\* a tool call of a model turn
Call(id, name, result, resultDisplay, status) ==
  [id |-> id, name |-> name, result |-> result, resultDisplay |-> resultDisplay,
   status |-> status]

\* a turn of the session detail; toolCalls is <<>> when it is not an array,
\* else <<the array>>; tokens is <<>> when missing, else <<the object>>
Turn(type, content, toolCalls, tokens) ==
  [type |-> type, content |-> content, toolCalls |-> toolCalls, tokens |-> tokens,
   timestamp |-> None]

\* the same turn with a timestamp string
TurnAt(turn, timestamp) == [turn EXCEPT !.timestamp = timestamp]

\* the tokens object {prompt, candidates, cached}
GeminiTokens(prompt, candidates, cached) ==
  [f \in RawFields |->
     CASE f = "prompt" -> Num(prompt)
       [] f = "candidates" -> Num(candidates)
       [] f = "cached" -> Num(cached)
       [] OTHER -> Absent]

\* the converted messages
UserMessage(content) ==
  [type |-> "user", content |-> content, usage |-> <<>>, engine |-> "gemini",
   timestamp |-> None]
AssistantMessage(content) ==
  [type |-> "assistant", content |-> content, usage |-> <<>>, engine |-> "gemini",
   timestamp |-> None]
ResultMessage(usage) ==
  [type |-> "result", content |-> <<>>, usage |-> <<usage>>, engine |-> "gemini",
   timestamp |-> None]

\* timestamp: msg.timestamp on every message pushed for the turn (the tool
\* calls carry no timestamp of their own)
Stamped(pushed, timestamp) ==
  [k \in 1..Len(pushed) |-> [pushed[k] EXCEPT !.timestamp = timestamp]]

GeminiText(text) == [type |-> "text", text |-> text]
GeminiToolUse(toolCall) ==
  [type |-> "tool_use", id |-> toolCall.id, name |-> toolCall.name]
GeminiToolResult(toolCall, content) ==
  [type |-> "tool_result", tool_use_id |-> toolCall.id, content |-> content,
   is_error |-> toolCall.status = "error"]

\* the content of the tool_result block of a call with a result
ResultContent(toolCall) ==
  LET resultContent ==
        IF toolCall.result[1] = "functionResponse" THEN Str(toolCall.result[2])
        ELSE toolCall.result
  IN IF ~Falsy(toolCall.resultDisplay) THEN toolCall.resultDisplay
     ELSE IF resultContent[1] = "string" THEN resultContent
     ELSE JsonStringify(resultContent)

\* the array toolCalls of a turn, <<>> when it is no array or empty
CallsOf(msg) == IF msg.toolCalls = <<>> THEN <<>> ELSE msg.toolCalls[1]

\* the tool_use blocks pushed on assistantContent
RECURSIVE ToolUseBlocks(_)
ToolUseBlocks(calls) ==
  IF calls = <<>> THEN <<>>
  ELSE <<GeminiToolUse(calls[1])>> \o ToolUseBlocks(Tail(calls))

\* the tool_result messages pushed on converted inside the loop over the
\* calls: one for every call whose result is not undefined
RECURSIVE ToolResultMessages(_)
ToolResultMessages(calls) ==
  IF calls = <<>> THEN <<>>
  ELSE (IF calls[1].result # Absent
        THEN <<UserMessage(<<GeminiToolResult(calls[1], ResultContent(calls[1]))>>)>>
        ELSE <<>>)
       \o ToolResultMessages(Tail(calls))

\* the messages one turn pushes, the tool results after the assistant message
ConvertTurn_ResultsLast(msg) ==
  Stamped(
    IF msg.type = "user"
    THEN <<UserMessage(IF Falsy(msg.content) THEN <<>>
                       ELSE <<GeminiText(msg.content[2])>>)>>
    ELSE LET assistantContent ==
               ToolUseBlocks(CallsOf(msg))
                 \o (IF Falsy(msg.content) THEN <<>> ELSE <<GeminiText(msg.content[2])>>)
             usage == extractGeminiUsage(msg.tokens)
         IN <<AssistantMessage(IF assistantContent # <<>> THEN assistantContent
                               ELSE <<GeminiText("")>>)>>
              \o ToolResultMessages(CallsOf(msg))
              \o (IF usage.present THEN <<ResultMessage(usage)>> ELSE <<>>),
    msg.timestamp)

\* the messages one turn pushes on converted
ConvertTurn(msg) ==
  Stamped(
    IF msg.type = "user"
    THEN <<UserMessage(IF Falsy(msg.content) THEN <<>>
                       ELSE <<GeminiText(msg.content[2])>>)>>
    ELSE LET assistantContent ==
               ToolUseBlocks(CallsOf(msg))
                 \o (IF Falsy(msg.content) THEN <<>> ELSE <<GeminiText(msg.content[2])>>)
             usage == extractGeminiUsage(msg.tokens)
         IN ToolResultMessages(CallsOf(msg))
              \o <<AssistantMessage(IF assistantContent # <<>> THEN assistantContent
                                    ELSE <<GeminiText("")>>)>>
              \o (IF usage.present THEN <<ResultMessage(usage)>> ELSE <<>>),
    msg.timestamp)

RECURSIVE convertGeminiSessionDetailToClaudeMessages(_)
convertGeminiSessionDetailToClaudeMessages(detail) ==
  IF detail = <<>> THEN <<>>
  ELSE ConvertTurn(detail[1])
         \o convertGeminiSessionDetailToClaudeMessages(Tail(detail))

\* the tool-call arrays of the model turns
CallLists ==
  {<<>>,
   <<<<>>>>,
   <<<<Call("t1", "readFile", Absent, Str("ok"), "success")>>>>,
   <<<<Call("t1", "readFile", FunctionResponse("data"), Str("ok"), "success")>>>>,
   <<<<Call("t1", "readFile", FunctionResponse("data"), Absent, "success")>>>>,
   <<<<Call("t1", "readFile", Str("out"), Absent, "success"),
       Call("t2", "shell", OtherArray, Absent, "error")>>>>,
   <<<<Call("t1", "shell", Absent, Absent, "success"),
       Call("t2", "readFile", Str("out"), Str("ok"), "success")>>>>,
   <<<<Call("t1", "shell", Str("out"), Str(""), "success"),
       Call("t2", "readFile", FunctionResponse("data"), Absent, "success")>>>>}

TokenChoices ==
  {<<>>, <<GeminiTokens(100, 20, 0)>>, <<GeminiTokens(0, 0, 0)>>}

TurnUniverse ==
  {Turn("user", c, <<>>, <<>>) : c \in {Absent, Str("fix bug")}}
    \cup {Turn("gemini", c, calls, tokens) :
            c \in {Str(""), Str("Fixed it")}, calls \in CallLists,
            tokens \in TokenChoices}

AdapterInit ==
  /\ geminiDetail \in SeqsUpTo(TurnUniverse, MaxTurns)
  /\ geminiConverted = <<>>
  /\ UsageIdle
  /\ LifeStart /\ BillIdle /\ GrpIdle

\* one call of the adapter on the session detail
Convert ==
  /\ geminiConverted = <<>>
  /\ geminiConverted' = <<convertGeminiSessionDetailToClaudeMessages(geminiDetail)>>
  /\ UNCHANGED <<geminiDetail, geminiTokens, geminiUsage, billVars, grpVars,
                 lifeVars>>

AdapterNext == Convert

SpecAdapter == AdapterInit /\ [][AdapterNext]_vars

\* ------------------------------------------------------------------------
\* Billing a loaded Gemini session: the adapter's output handed to
\* aggregateSessionCost
\* ------------------------------------------------------------------------
\* tokenExtractor.extract on the usage of a converted result message: the
\* cached input count is the cache-read count
GeminiUsageTokens(usage) ==
  Tok(usage.input_tokens, usage.output_tokens,
      IF usage.cached THEN usage.cached_input_tokens ELSE 0, 0)

\* a converted message as the aggregator reads it: engine, type, usage and
\* timestamp, no message id and no uuid
AsLedgerMessage(c) ==
  BillMsg(c.engine, c.type,
          IF c.usage = <<>> THEN NoUsage ELSE <<GeminiUsageTokens(c.usage[1])>>,
          None, None, None, None, c.timestamp)

AsLedgerMessages(converted) ==
  [k \in 1..Len(converted) |-> AsLedgerMessage(converted[k])]

\* the turns of the loaded sessions: user turns and model turns with usage,
\* with all-zero usage or without tokens, with equal, different or no
\* timestamp strings
LoadedTurns ==
  {TurnAt(Turn("user", Str("fix bug"), <<>>, <<>>), ts) : ts \in {None, "T1"}}
    \cup {TurnAt(Turn("gemini", Str("Fixed it"), <<>>, tokens), ts) :
            tokens \in {<<>>, <<GeminiTokens(100, 20, 0)>>, <<GeminiTokens(3, 1, 2)>>,
                        <<GeminiTokens(0, 0, 0)>>},
            ts \in {None, "T1", "T2"}}

LoadedInit ==
  /\ geminiDetail \in SeqsUpTo(LoadedTurns, MaxTurns)
  /\ geminiConverted = <<>>
  /\ UsageIdle
  /\ LifeStart /\ BillIdle /\ GrpIdle

\* aggregateSessionCost on the converted messages
BillLoaded ==
  /\ geminiConverted # <<>>
  /\ billResult = <<>>
  /\ billMessages' = AsLedgerMessages(geminiConverted[1])
  /\ billResult' = <<aggregateSessionCost(AsLedgerMessages(geminiConverted[1]))>>
  /\ UNCHANGED <<gemVars, grpVars, lifeVars>>

LoadedNext == Convert \/ BillLoaded

SpecLoaded == LoadedInit /\ [][LoadedNext]_vars

\* ------------------------------------------------------------------------
\* Claims on the session lifecycle
\* ------------------------------------------------------------------------
\* the fetch of load invocation i resolves or rejects in this step
Completes(i) == loads[i].pc = "fetching" /\ loads'[i].pc # "fetching"

\* the sessions that hold a subscription in the transport
ListenedSessions == {SubSession(x) : x \in subs}

\* this step is a call of reconnectToSession
ReconnectCalled == Len(recs') = Len(recs) + 1

\* this step is the completion handler of session s running while mounted
CompletionHandled(s) ==
  /\ s \in running /\ s \notin running'
  /\ SubsOf(s, "complete") # {}
  /\ isMounted

\* C1: when the fetch of a load whose session id is no longer the latest
\* requested one completes (success or failure, any engine), the message
\* sequence, the raw log, the error, the loading flag, the Codex rate limits
\* and the not-found callback are untouched; the latest request's successful
\* completion publishes its history.
C1_StaleCompletionTouchesNothing ==
  [][\A i \in 1..Len(loads) :
       Completes(i) =>
         /\ (loads[i].sid # loadingSessionIdRef =>
               UNCHANGED <<messages, rawJsonlOutput, error, isLoading,
                           codexRateLimits, notFoundCalls>>)
         /\ (loads[i].sid = loadingSessionIdRef /\ i = Len(loads) /\ isMounted
               /\ loads'[i].pc = "loaded" =>
               messages' = LoadedMessages(FetchHistory(loads[i].sid)) /\ ~isLoading')]_vars

\* C2: only the most recently issued load request has its completion applied:
\* the completion of any earlier request publishes nothing (messages, raw log,
\* error, loading flag, not-found callback), also when it carries the same
\* session id as the latest request.
C2_OnlyLatestRequestApplied ==
  [][\A i \in 1..Len(loads) :
       Completes(i) /\ i < Len(loads) => UNCHANGED published]_vars

\* C9: at most one session holds subscriptions in the transport, and a
\* reconnect call that goes on to register leaves none of the previously
\* registered subscriptions behind.
C9_OneListenerSet ==
  [][/\ Cardinality(ListenedSessions') <= 1
     /\ (ReconnectCalled /\ recs'[Len(recs')].pc # "returned" => subs' = {})]_vars

\* C10: the completion handler of a session (component mounted) releases all
\* subscriptions of that session and clears the listening and active-session
\* flags, and the cleared state persists until the next reconnect call.
C10_CompletionReturnsToIdle ==
  [][/\ \A s \in SessionIds :
          CompletionHandled(s) =>
            /\ \A cls \in Classes : SubsOf(s, cls)' = {}
            /\ ~isListeningRef' /\ ~hasActiveSessionRef'
     /\ (~ReconnectCalled /\ ~isListeningRef /\ ~hasActiveSessionRef /\ subs = {} =>
           ~isListeningRef' /\ ~hasActiveSessionRef' /\ subs' = {})]_vars

\* the latest load request is for session s and has published its history
LatestLoadPublished(s) ==
  /\ loads # <<>>
  /\ loads[Len(loads)].sid = s
  /\ loads[Len(loads)].pc = "loaded"

\* an active check of session s has run to its end
CheckedActive(s) == \E c \in 1..Len(checks) : checks[c].sid = s /\ checks[c].pc = "done"

\* a reconnect invocation for s has registered its three listeners and finished
Attached(s) ==
  \E r \in 1..Len(recs) :
    /\ recs[r].sid = s /\ recs[r].pc = "done"
    /\ \A cls \in Classes : <<r, cls>> \in subs

\* the number of times record rec occurs in the message sequence
Occurrences(rec) == Cardinality({j \in 1..Len(messages) : messages[j] = rec})

\* C11: for a running primary-engine session whose history was loaded and
\* whose active check and reconnect have finished, every output record the
\* session has emitted so far occurs exactly once in the message sequence
\* (none lost between the history fetch and the output registration, none
\* present both from history and from the live stream).
C11_EveryRecordExactlyOnce ==
  \A s \in LiveSessions :
    isMounted /\ s \in running /\ LatestLoadPublished(s) /\ CheckedActive(s)
      /\ Attached(s)
    => \A k \in 1..emitted[s] : Occurrences(Record(s, k)) = 1

\* the user has switched to session b: b is the latest requested session, its
\* history is published, and an active check of b passed the race guard and
\* found b running (it claimed the session id before calling reconnect)
SwitchedTo(b) ==
  /\ LatestLoadPublished(b)
  /\ loadingSessionIdRef = b
  /\ CheckedActive(b)
  /\ claudeSessionId = b

\* no reconnect invocation is between its listen() calls
NoReconnectPending == \A r \in 1..Len(recs) : recs[r].pc \in {"done", "returned"}

\* a reconnect invocation for session s has run to its end
HadAttached(s) == \E r \in 1..Len(recs) : recs[r].sid = s /\ recs[r].pc = "done"

\* session s emits an output event in this step
Emits(s) == emitted'[s] = emitted[s] + 1

\* C12: after a switch from a session a with an attached listener set to
\* another session b (history of b requested and published, then the active
\* check of b), no output event of a is appended to the message sequence or
\* the raw log, and when b is running its listener set is attached once the
\* reconnect has finished.
C12_SwitchDetachesOldStream ==
  /\ [][\A a, b \in LiveSessions :
         a # b /\ HadAttached(a) /\ SwitchedTo(b) /\ Emits(a)
         => UNCHANGED <<messages, rawJsonlOutput>>]_vars
  /\ [](\A a, b \in LiveSessions :
         a # b /\ HadAttached(a) /\ isMounted /\ SwitchedTo(b) /\ b \in running
           /\ NoReconnectPending
         => Attached(b))

\* the last reconnect call before this one has not yet registered anything
PreviousCallJustEntered == recs # <<>> /\ recs[Len(recs)].pc = "listenOutput"

\* C13: a reconnect call made while the controller is listening, for the same
\* or any other session, releases and registers no subscription and leaves the
\* claimed session id, the loading flag, the listening flag and the
\* active-session flag as they were; a call that follows another call before
\* that one has registered anything returns at once, and a call that returned
\* at once never holds a subscription, so the two register one listener set.
C13_ReconnectWhileListeningIsNoOp ==
  [][/\ (ReconnectCalled /\ isListeningRef =>
          /\ recs'[Len(recs')].pc = "returned"
          /\ UNCHANGED <<subs, unlistenRefs, claudeSessionId, isLoading,
                         isListeningRef, hasActiveSessionRef>>)
     /\ (ReconnectCalled /\ PreviousCallJustEntered =>
          recs'[Len(recs')].pc = "returned")
     /\ \A r \in 1..Len(recs') :
          recs'[r].pc = "returned" => \A cls \in Classes : <<r, cls>> \notin subs']_vars

\* a second call for another session returned at once while the first call
\* went on to register its listener set
C13_Witness ==
  /\ Len(recs) = 2
  /\ recs[1].sid # recs[2].sid
  /\ recs[1].pc = "done" /\ recs[2].pc = "returned"
  /\ subs = {<<1, "output">>, <<1, "error">>, <<1, "complete">>}

\* the query of active check c is answered or rejected in this step
CheckEnds(c) == checks[c].pc = "querying" /\ checks'[c].pc # "querying"

\* this step is a call of checkForActiveSession for session s
CheckCalled(s) == Len(checks') = Len(checks) + 1 /\ checks'[Len(checks')].sid = s

\* this step takes the controller to Listening for session s: a reconnect
\* invocation for s sets the listening flag and goes on to register
StartsListening(s) ==
  /\ ReconnectCalled
  /\ recs'[Len(recs')] = [sid |-> s, pc |-> "listenOutput"]
  /\ ~isListeningRef /\ isListeningRef'

\* a call for a Codex or Gemini session returns at once: no query of the
\* running sessions, no listener, no state set
BatchEngineCheckSkipped ==
  \A s \in SessionIds :
    CheckCalled(s) /\ EngineOf(s) \in {"codex", "gemini"} =>
      /\ checks'[Len(checks')].pc = "returned"
      /\ UNCHANGED <<loadingSessionIdRef, isMounted, isListeningRef,
                     hasActiveSessionRef, unlistenRefs, isLoading, error, messages,
                     rawJsonlOutput, claudeSessionId, codexRateLimits,
                     notFoundCalls, loads, recs, subs, running, emitted, lastPayload, debugLog>>

\* C14 as stated: an active check takes the controller to Listening for its
\* session if and only if the session's engine is the primary one and the
\* session id is among the running sessions; for a Codex or Gemini session it
\* neither queries nor registers nor sets any state.
C14_ListeningIffPrimaryAndRunning ==
  [][/\ \A c \in 1..Len(checks) :
          CheckEnds(c) =>
            (StartsListening(checks[c].sid) <=>
               EngineOf(checks[c].sid) = "claude" /\ checks[c].sid \in running)
     /\ BatchEngineCheckSkipped]_vars

\* C14 amended: an active check takes the controller to Listening for its
\* session if and only if the engine is the primary one, the query of the
\* running sessions is answered and holds the session id, the session is still
\* the latest requested one when the answer arrives, and the controller is not
\* listening already; for a Codex or Gemini session it neither queries nor
\* registers nor sets any state.
C14_ListeningIffRunningLatestAndIdle ==
  [][/\ \A c \in 1..Len(checks) :
          CheckEnds(c) =>
            (StartsListening(checks[c].sid) <=>
               /\ EngineOf(checks[c].sid) = "claude"
               /\ checks'[c].pc = "done"
               /\ checks[c].sid \in running
               /\ loadingSessionIdRef = checks[c].sid
               /\ ~isListeningRef)
     /\ BatchEngineCheckSkipped]_vars

\* the check of a session the user has left was discarded, and the check of
\* the latest session, found running, attached its listener set
C14_Witness ==
  /\ Len(checks) = 2
  /\ checks[1].sid # checks[2].sid
  /\ checks[1].pc = "done" /\ checks[2].pc = "done"
  /\ checks[1].sid \in running
  /\ Len(recs) = 1
  /\ recs[1] = [sid |-> checks[2].sid, pc |-> "done"]

\* the fetch of the latest load request rejects in this step, component mounted
LatestFails(i) == Completes(i) /\ i = Len(loads) /\ isMounted

\* C15: when the latest load request fails with an error whose message
\* matches a "not found" phrasing, the not-found callback is invoked exactly
\* once, no error is set, the message sequence and the raw log are not
\* changed, and the loading flag is cleared.
C15_NotFoundIsRecoverable ==
  [][\A i \in 1..Len(loads) :
       LatestFails(i) /\ loads'[i].pc = "notFound" =>
         /\ notFoundCalls' = notFoundCalls + 1
         /\ UNCHANGED <<error, messages, rawJsonlOutput>>
         /\ ~isLoading']_vars

\* a history was published, then the latest request failed with "not found"
C15_Witness ==
  /\ Len(loads) = 2
  /\ loads[1].pc = "loaded" /\ loads[2].pc = "notFound"
  /\ isMounted /\ messages # <<>>
  /\ notFoundCalls = 1 /\ error = NoError /\ ~isLoading

\* C16: when the latest load request fails with any error that is not a
\* "not found" failure, the error string is set and the loading flag is
\* cleared; the not-found callback is not invoked and the message sequence
\* and the raw log are left as they were.
C16_OtherFailureIsVisible ==
  [][\A i \in 1..Len(loads) :
       LatestFails(i) /\ loads'[i].pc = "failed" =>
         /\ error' = LoadFailedError
         /\ ~isLoading'
         /\ UNCHANGED <<notFoundCalls, messages, rawJsonlOutput>>]_vars

\* a history was published, then the latest request failed with another error
C16_Witness ==
  /\ Len(loads) = 2
  /\ loads[1].pc = "loaded" /\ loads[2].pc = "failed"
  /\ isMounted /\ messages # <<>>
  /\ notFoundCalls = 0 /\ error = LoadFailedError /\ ~isLoading

\* an output event of session s reaches exactly one registered output handler
\* of a mounted component in this step
Delivered(s) ==
  /\ Emits(s)
  /\ isMounted
  /\ Cardinality(SubsOf(s, "output")) = 1

\* C17: a live output event whose payload does not parse adds nothing to the
\* message sequence and nothing to the raw log and leaves the subscriptions
\* and the listening flag as they are; an output event that parses, also
\* after a malformed one, is appended at the end of both.
C17_MalformedPayloadDropped ==
  [][\A s \in SessionIds :
       Delivered(s) =>
         IF CanParse(lastPayload')
         THEN /\ messages' = Append(messages, Parse(lastPayload'))
              /\ rawJsonlOutput' = Append(rawJsonlOutput, lastPayload')
         ELSE UNCHANGED <<messages, rawJsonlOutput, subs, unlistenRefs,
                          isListeningRef>>]_vars

\* the closed kind set of the canonical message
ClosedKinds == {"user", "assistant", "system", "result", "thinking", "tool_use"}

\* load invocation i resolves and publishes its history in this step
Publishes(i) ==
  /\ Completes(i) /\ loads'[i].pc = "loaded"
  /\ IsCurrentLoad(loads[i].sid) /\ isMounted

\* the raw records of history h that message sequence msgs was made from
SourcesOf(msgs) == {<<msgs[j][1], msgs[j][2]>> : j \in 1..Len(msgs)}

\* the number of lines of the filter log that name type
TimesLogged(log, type) == Cardinality({j \in 1..Len(log) : log[j] = type})

\* C18: every message published by a successful load has a kind of the closed
\* set {user, assistant, system, result, thinking, tool_use}; a history record
\* of any other kind is not published, the load still succeeds, and the
\* filter logs each distinct unknown kind at most once within the load.
C18_PublishedKindsAreClosed ==
  [][\A i \in 1..Len(loads) :
       Publishes(i) =>
         LET h == FetchHistory(loads[i].sid) IN
         /\ \A j \in 1..Len(messages') : KindOf(messages'[j]) \in ClosedKinds
         /\ \A k \in 1..Len(h) :
              RawType(h[k]) \notin ClosedKinds \cup {NoType} => h[k] \notin SourcesOf(messages')
         /\ \A j \in 1..Len(debugLog') : TimesLogged(debugLog', debugLog'[j]) = 1]_vars

\* the raw record a published message was made from, and its subtype field
SourceOf(m) == <<m[1], m[2]>>
SubtypeOf(m) == IF Len(m) > 3 THEN m[4] ELSE NoSubtype

\* a user-kind record whose text content holds a slash-command marker
IsSlashCommand(rec) == RawType(rec) = "user" /\ Markers(rec) # {}

\* the subtype the markers of a record call for
CommandSubtype(rec) ==
  IF "<local-command-stdout>" \in Markers(rec) THEN "command-output"
  ELSE IF "Unknown slash command:" \in Markers(rec) THEN "command-error"
  ELSE "command-meta"

\* the positions of a message sequence that own a billing event
BilledPositions(msgs) ==
  LET events == aggregateSessionCost([k \in 1..Len(msgs) |-> AsBillMsg(msgs[k])]).events
  IN {events[j].order : j \in 1..Len(events)}

QueryResolves(c) == checks[c].pc = "querying" /\ checks'[c].pc = "done"

\* a loadHistory for another session id was issued while the query was in flight
SwitchedMeanwhile(c) ==
  \E i \in (checks[c].loadsBefore + 1)..Len(loads) : loads[i].sid # checks[c].sid

\* the step registers no listener, starts no registration and sets no state
NothingForOldSession ==
  /\ recs' = recs
  /\ UNCHANGED <<subs, unlistenRefs, isListeningRef, hasActiveSessionRef,
                 claudeSessionId, isLoading, error>>

C37_ActiveOnlyWhileListening ==
  isMounted =>
    /\ hasActiveSessionRef => isListeningRef
    /\ ~isListeningRef => ~hasActiveSessionRef /\ ~isLoading

\* the most recently requested loadHistory has resolved or rejected
LatestSettled == loads # <<>> /\ loads[Len(loads)].pc # "fetching"

\* C38: the loading flag does not get stuck: with the component mounted, every
\* fetch eventually resolving and no live session attached, whenever the most
\* recently requested loadHistory has resolved (success, not found or other
\* failure) the loading flag is false, it stays false while that request is the
\* latest, whatever superseded fetches resolve afterwards, and a set loading
\* flag always leads to such a state.
C38_LoadingNotStuck ==
  /\ [](LatestSettled => ~isLoading)
  /\ (isLoading ~> (LatestSettled /\ ~isLoading))

\* three requests, the first and the last for one session, all fetches resolved
\* with the three outcomes
C38_Witness ==
  /\ Len(loads) = 3
  /\ loads[1].sid = loads[3].sid /\ loads[2].sid # loads[3].sid
  /\ loads[1].pc = "failed" /\ loads[2].pc = "loaded" /\ loads[3].pc = "notFound"
  /\ isMounted
  /\ ~isLoading

\* ------------------------------------------------------------------------
\* Claims on the billing ledger
\* ------------------------------------------------------------------------
\* positions of the scanned sequence that are billing candidates
Candidates ==
  {i \in 1..Len(billMessages) :
     /\ IsBillable(billMessages[i])
     /\ calculateTotalTokens(TokenExtract(billMessages[i])) # 0}

KeyAt(i) == getBillingKey(billMessages[i], i - 1)
TotalAt(i) == calculateTotalTokens(TokenExtract(billMessages[i]))
TsAt(i) == extractTimestamp(billMessages[i]).timestampMs

CandidatesOf(key) == {i \in Candidates : KeyAt(i) = key}

\* candidates of the key with the maximum total-token count
TopOf(key) == {i \in CandidatesOf(key) : \A j \in CandidatesOf(key) : TotalAt(j) <= TotalAt(i)}

\* among those, the ones with a resolved timestamp, and with the latest one
TimedTopOf(key) == {i \in TopOf(key) : TsAt(i) # Undefined}
LatestTopOf(key) ==
  IF TimedTopOf(key) = {} THEN TopOf(key)
  ELSE {i \in TimedTopOf(key) : \A j \in TimedTopOf(key) : TsAt(j) <= TsAt(i)}

\* the candidate that must survive for the key
WinnerOf(key) == SetMax(LatestTopOf(key))

Winners == {WinnerOf(KeyAt(i)) : i \in Candidates}

\* the sum of one token category over the messages at the positions S
RECURSIVE SumCategory(_, _)
SumCategory(S, category) ==
  IF S = {} THEN 0
  ELSE LET x == CHOOSE y \in S : TRUE
       IN TokenExtract(billMessages[x])[category] + SumCategory(S \ {x}, category)

Aggregated == billResult # <<>>
Ledger == billResult[1]

\* C3: the returned events never hold two events with the same key, and their
\* number, also reported as the billable-event count, is the number of distinct
\* keys among the billable messages with a non-zero total token count.
C3_OneEventPerKey ==
  Aggregated =>
    /\ \A a, b \in 1..Len(Ledger.events) :
         Ledger.events[a].key = Ledger.events[b].key => a = b
    /\ Len(Ledger.events) = Cardinality({KeyAt(i) : i \in Candidates})
    /\ Ledger.assistantMessageCount = Len(Ledger.events)

C3_Witness ==
  /\ Aggregated
  /\ \E i, j \in Candidates : i # j /\ KeyAt(i) = KeyAt(j)
  /\ \E i, j \in Candidates : KeyAt(i) # KeyAt(j)
  /\ Len(Ledger.events) = 2

\* C4: for every key the surviving event is the candidate with the maximum
\* total token count; among the candidates tied at the maximum it is the one
\* with the latest resolved timestamp, and with absent or equal timestamps the
\* one scanned last.
C4_SurvivorIsBestCandidate ==
  Aggregated =>
    \A a \in 1..Len(Ledger.events) :
      LET e == Ledger.events[a] IN
      /\ CandidatesOf(e.key) # {}
      /\ e.order = WinnerOf(e.key) - 1
      /\ e.message = billMessages[WinnerOf(e.key)]
      /\ e.totalTokenCount = TotalAt(WinnerOf(e.key))

\* three candidates share a key and tie at the maximum; the timestamp, not the
\* scan order, decides
C4_Witness ==
  /\ Aggregated
  /\ \E a \in 1..Len(Ledger.events) :
       LET key == Ledger.events[a].key IN
       /\ Cardinality(TopOf(key)) = 3
       /\ Ledger.events[a].order # SetMax(CandidatesOf(key)) - 1

\* C5: totals.totalTokens is the sum over the surviving events of the four
\* counts, each per-category total is the sum of its category over the
\* surviving events, totalTokens is the sum of the four category totals, and
\* messages that lost deduplication contribute nothing.
C5_TotalsAreSumsOverSurvivors ==
  Aggregated =>
    LET t == Ledger.totals
        evs == Ledger.events
        survivors == {evs[a].order + 1 : a \in 1..Len(evs)}
    IN
    /\ survivors = Winners
    /\ t.inputTokens = SumCategory(survivors, "input_tokens")
    /\ t.outputTokens = SumCategory(survivors, "output_tokens")
    /\ t.cacheReadTokens = SumCategory(survivors, "cache_read_tokens")
    /\ t.cacheWriteTokens = SumCategory(survivors, "cache_creation_tokens")
    /\ t.totalTokens = SumCategory(survivors, "input_tokens")
                        + SumCategory(survivors, "output_tokens")
                        + SumCategory(survivors, "cache_read_tokens")
                        + SumCategory(survivors, "cache_creation_tokens")
    /\ t.totalTokens = t.inputTokens + t.outputTokens + t.cacheReadTokens
                        + t.cacheWriteTokens

\* two events survive and a third candidate lost deduplication
C5_Witness ==
  /\ Aggregated
  /\ Len(Ledger.events) = 2
  /\ Cardinality(Candidates) = 3
  /\ Ledger.totals.totalTokens > 0
  /\ Ledger.totals.cacheWriteTokens > 0

\* the event list is in the claimed order
InLedgerOrder(evs) ==
  \A a, b \in 1..Len(evs) :
    a < b =>
      LET x == evs[a]
          y == evs[b]
      IN
      /\ x.timestampMs # Undefined /\ y.timestampMs # Undefined
           => x.timestampMs <= y.timestampMs
      /\ y.timestampMs # Undefined => x.timestampMs # Undefined
      /\ x.timestampMs = Undefined /\ y.timestampMs = Undefined
           => x.order < y.order

\* C21: in the returned events, two events with a resolved timestamp are in
\* ascending timestamp order, every event with a timestamp precedes every
\* event without one, and events without a timestamp are in scan order; this
\* holds whichever argument order the engine's sort hands the comparator.
C21_EventsInLedgerOrder ==
  Aggregated =>
    /\ InLedgerOrder(Ledger.events)
    /\ InLedgerOrder(SortEventsSwapped(ScanAll(billMessages, 1, <<>>)))

\* the event map holds an untimed event before a timed one, two timed events
\* out of order, and the returned list has three events
C21_Witness ==
  /\ Aggregated
  /\ Len(Ledger.events) = 3
  /\ LET map == ScanAll(billMessages, 1, <<>>) IN
     /\ map[1].timestampMs = Undefined
     /\ map[2].timestampMs = 2000
     /\ map[3].timestampMs = 1000

\* the message is a Codex cumulative thread-usage-updated item
ThreadUsageUpdated(m) ==
  /\ getEngineType(m) = "codex"
  /\ m.engine_metadata = "codex"
  /\ m.codexItemType = "thread_token_usage_updated"

\* the rule of the message's engine, as the claim words it
EngineRule(m) ==
  CASE getEngineType(m) = "claude" -> m.type = "assistant"
    [] getEngineType(m) = "codex" ->
         m.type = "system" /\ m.usage # NoUsage /\ ~ThreadUsageUpdated(m)
    [] getEngineType(m) = "gemini" -> m.type = "result" /\ m.usage # NoUsage
    [] OTHER -> FALSE

\* C22: every event of the ledger comes from a scanned message that satisfies
\* the rule of its engine (primary: assistant kind; Codex: system kind with a
\* usage record and not the thread-usage-updated item; Gemini: result kind
\* with a usage record), so no event has a Codex thread-usage-updated source
\* and the totals hold nothing of any other message.
C22_OnlyEngineRuleContributes ==
  Aggregated =>
    /\ \A a \in 1..Len(Ledger.events) :
         LET e == Ledger.events[a] IN
         /\ e.order + 1 \in 1..Len(billMessages)
         /\ e.message = billMessages[e.order + 1]
         /\ EngineRule(e.message)
         /\ ~ThreadUsageUpdated(e.message)
    /\ Ledger.totals.totalTokens
         = SumCategory({Ledger.events[a].order + 1 : a \in 1..Len(Ledger.events)},
                       "input_tokens")
           + SumCategory({Ledger.events[a].order + 1 : a \in 1..Len(Ledger.events)},
                         "output_tokens")
           + SumCategory({Ledger.events[a].order + 1 : a \in 1..Len(Ledger.events)},
                         "cache_read_tokens")
           + SumCategory({Ledger.events[a].order + 1 : a \in 1..Len(Ledger.events)},
                         "cache_creation_tokens")

\* a thread-usage-updated item with usage, a message of a kind its engine does
\* not bill, and a message whose engine is told by its metadata are scanned;
\* only the last one is in the ledger
C22_Witness ==
  /\ Aggregated
  /\ Len(billMessages) = 3
  /\ \E i \in 1..3 : ThreadUsageUpdated(billMessages[i])
                      /\ billMessages[i].type = "system"
                      /\ billMessages[i].usage # NoUsage
  /\ \E i \in 1..3 : ~ThreadUsageUpdated(billMessages[i])
                      /\ ~EngineRule(billMessages[i])
                      /\ billMessages[i].usage # NoUsage
  /\ Len(Ledger.events) = 1
  /\ Ledger.events[1].message.engine = None
  /\ getEngineType(Ledger.events[1].message) = "codex"

\* the scanned sequence in every scan order
ScanOrders ==
  {p \in [1..Len(billMessages) -> 1..Len(billMessages)] :
     \A i, j \in 1..Len(billMessages) : p[i] = p[j] => i = j}
Rescanned(p) == [i \in 1..Len(billMessages) |-> billMessages[p[i]]]

\* the candidates of one key that tie at the maximum total and latest
\* timestamp all carry the same counts and the same cost
CostAt(i) ==
  calculateMessageCost(TokenExtract(billMessages[i]),
                       getModelName(billMessages[i], getEngineType(billMessages[i])),
                       getEngineType(billMessages[i]))
TiesCarrySame ==
  \A i, j \in Candidates :
    KeyAt(i) = KeyAt(j) /\ i \in LatestTopOf(KeyAt(i)) /\ j \in LatestTopOf(KeyAt(i))
      => /\ TokenExtract(billMessages[i]) = TokenExtract(billMessages[j])
         /\ CostAt(i) = CostAt(j)

\* C23 as stated: for any two input sequences that are permutations of each
\* other the returned totals are equal.
C23_TotalsIndependentOfScanOrder ==
  Aggregated =>
    \A p \in ScanOrders : aggregateSessionCost(Rescanned(p)).totals = Ledger.totals

\* C23 amended: the totals of two permutations are equal when the candidates
\* of each key that tie at the maximum total token count and at the latest
\* timestamp carry the same token counts and the same cost; among such tied
\* candidates the one scanned last survives.
C23_TotalsIndependentUpToTies ==
  Aggregated /\ TiesCarrySame =>
    \A p \in ScanOrders : aggregateSessionCost(Rescanned(p)).totals = Ledger.totals

\* three candidates of one key with different totals, scanned with the
\* largest first: another scan order supersedes twice and ends at the same
\* totals
C23_Witness ==
  /\ Aggregated
  /\ TiesCarrySame
  /\ Cardinality(Candidates) = 3
  /\ \A i, j \in Candidates : KeyAt(i) = KeyAt(j)
  /\ TotalAt(1) > TotalAt(2)
  /\ TotalAt(1) > TotalAt(3)
  /\ billMessages[2] # billMessages[3]
  /\ Ledger.totals.totalTokens = TotalAt(1)

\* the four key sources of a message in priority order: nested message id,
\* top-level message id, stable unique id, timestamp string
KeySources(m) == <<m.nestedId, m.id, m.uuid, TimestampOrReceivedAt(m)>>

IsBlankString(x) == x \in {"", " "}

\* the key made from the source of rank r, the position having rank 5
KeyFrom(r, m, position) ==
  CASE r \in {1, 2} -> <<"message", KeySources(m)[r]>>
    [] r = 3 -> <<"uuid", KeySources(m)[r]>>
    [] r = 4 -> <<"time", KeySources(m)[r]>>
    [] OTHER -> <<"index", position>>

\* the key of the event is taken from a present, non-blank source, every
\* source of higher priority being absent or blank
FirstUsableSource(e, r) ==
  /\ e.key = KeyFrom(r, e.message, e.order)
  /\ r < 5 => KeySources(e.message)[r] # None /\ ~IsBlankString(KeySources(e.message)[r])
  /\ \A h \in 1..(r - 1) :
       KeySources(e.message)[h] = None \/ IsBlankString(KeySources(e.message)[h])

\* C33 as stated: the key of a billable message comes from the first present,
\* non-blank source in the order nested message id, top-level message id,
\* stable unique id, timestamp string, position; a source of lower priority is
\* used only when every source of higher priority is absent or blank, and the
\* position is used only when all four other sources are absent.
C33_KeyPriorityPositionOnlyIfAbsent ==
  Aggregated =>
    \A k \in 1..Len(Ledger.events) :
      /\ \E r \in 1..5 : FirstUsableSource(Ledger.events[k], r)
      /\ Ledger.events[k].key[1] = "index" =>
           \A h \in 1..4 : KeySources(Ledger.events[k].message)[h] = None

\* C33, amended: the same priority order, the position being used exactly
\* when each of the four other sources is absent or blank.
C33_KeyPriority ==
  Aggregated =>
    \A k \in 1..Len(Ledger.events) :
      /\ \E r \in 1..5 : FirstUsableSource(Ledger.events[k], r)
      /\ Ledger.events[k].key[1] = "index" <=>
           \A h \in 1..4 :
             KeySources(Ledger.events[k].message)[h] = None
               \/ IsBlankString(KeySources(Ledger.events[k].message)[h])

\* three events: keyed by the uuid under blank message ids, by the timestamp
\* under blank ids, and by the position under four blank sources
C33_Witness ==
  /\ Aggregated
  /\ \E k \in 1..Len(Ledger.events) :
       /\ Ledger.events[k].key = <<"uuid", "u">>
       /\ IsBlankString(Ledger.events[k].message.nestedId)
       /\ IsBlankString(Ledger.events[k].message.id)
  /\ \E k \in 1..Len(Ledger.events) :
       /\ Ledger.events[k].key = <<"time", "T1">>
       /\ IsBlankString(Ledger.events[k].message.uuid)
  /\ \E k \in 1..Len(Ledger.events) :
       /\ Ledger.events[k].key[1] = "index"
       /\ \A h \in 1..4 : IsBlankString(KeySources(Ledger.events[k].message)[h])

\* the comparator places x before y
PlacesBefore(x, y) == CompareEvents(x, y) < 0

\* C39: the ordering relation of the final sort is a consistent strict order:
\* for no two distinct surviving events a and b does it place a before b and
\* also b before a, two events with equal resolved timestamps included, so
\* the returned order is the same whichever way the engine's sort hands the
\* pairs to the comparator.
C39_ConsistentStrictOrder ==
  Aggregated =>
    /\ \A a, b \in 1..Len(Ledger.events) :
         a # b => ~(PlacesBefore(Ledger.events[a], Ledger.events[b])
                      /\ PlacesBefore(Ledger.events[b], Ledger.events[a]))
    /\ Ledger.events = SortEventsSwapped(ScanAll(billMessages, 1, <<>>))

\* ------------------------------------------------------------------------
\* Claims on the message grouping
\* ------------------------------------------------------------------------
Grouped == grpResult # <<>>
Groups == grpResult[1]

Indices == 0..(Len(grpMessages) - 1)
MsgAt(i) == grpMessages[i + 1]

NodesOf(type) == {k \in 1..Len(Groups) : Groups[k].type = type}

\* the array indices of a sequence of message objects
IndexSet(refs) == {refs[k].index : k \in 1..Len(refs)}

IsNormalNode(i) == \E k \in NodesOf("normal") : Groups[k].index = i
AggregatesWith(i) == {k \in NodesOf("aggregated") : i \in IndexSet(Groups[k].messages)}
GroupsWith(i) ==
  {k \in NodesOf("subagent") : i \in IndexSet(Groups[k].group.subagentMessages)}
SameAggregate(i, j) == AggregatesWith(i) \cap AggregatesWith(j) # {}

\* the later messages attributed to the spawn id t of the message at p
Descendants(p, t) == {i \in Indices : i > p /\ MsgAt(i).parent_tool_use_id = t}

\* an assistant message issuing spawn calls, followed by non-spawning messages
SpawnScenario(p) ==
  /\ Len(extractTaskToolUseIds(MsgAt(p))) >= 1
  /\ MsgAt(p).parent_tool_use_id = None
  /\ \A i \in Indices : i > p => ~hasTaskToolCall(MsgAt(i))

\* C6: for an assistant message issuing k >= 1 spawn calls followed by messages
\* with interleaved parent ids, one sub-agent group is emitted per spawn id with
\* descendants; its subagentMessages are exactly the later messages with that
\* parent id in their original order, and none of them appears as a normal
\* node, in an aggregate or in another group.
C6_ParallelSpawnsGroupTheirOwn ==
  Grouped =>
    \A p \in Indices : SpawnScenario(p) =>
      \A t \in SeqToSet(extractTaskToolUseIds(MsgAt(p))) :
        LET nodes == {k \in NodesOf("subagent") : Groups[k].group.id = t} IN
        /\ Cardinality(nodes) = IF Descendants(p, t) = {} THEN 0 ELSE 1
        /\ \A k \in nodes :
             Groups[k].group.subagentMessages = RefsInOrder(grpMessages, Descendants(p, t))
        /\ \A i \in Descendants(p, t) :
             /\ ~IsNormalNode(i)
             /\ AggregatesWith(i) = {}
             /\ \A k \in GroupsWith(i) : Groups[k].group.id = t

\* two groups, the three messages of one interleaved with a message of the other
C6_Witness ==
  /\ Grouped
  /\ Len(grpMessages) = 4
  /\ SpawnScenario(0)
  /\ Cardinality(NodesOf("subagent")) = 2
  /\ \E k \in NodesOf("subagent") :
       IndexSet(Groups[k].group.subagentMessages) = {1, 3}
  /\ \E k \in NodesOf("subagent") :
       IndexSet(Groups[k].group.subagentMessages) = {2}

\* a message outside every sub-agent structure
TopLevel(i) ==
  /\ ~isSubagentMessage(MsgAt(i))
  /\ ~hasTaskToolCall(MsgAt(i))

\* C7: every message with a non-empty narrative text block is a standalone
\* normal node of the output and in no aggregated-technical group, whatever
\* its kind and its other blocks (stated for the messages outside sub-agent
\* structures).
C7_TextMessagesStandAlone ==
  Grouped =>
    \A i \in Indices :
      HasVisibleText(MsgAt(i)) /\ TopLevel(i) =>
        IsNormalNode(i) /\ AggregatesWith(i) = {}

\* the classification rule of the grouping contract: text is not aggregable,
\* reasoning together with tool activity is not aggregable, else thinking, tool
HasReasoning(m) == m.type = "thinking" \/ HasBlock(m, "thinking")
HasToolActivity(m) == HasBlock(m, "tool_use") \/ HasBlock(m, "tool_result")
TechnicalKind(m) ==
  IF HasVisibleText(m) THEN None
  ELSE IF HasReasoning(m) /\ HasToolActivity(m) THEN None
  ELSE IF HasReasoning(m) THEN "thinking"
  ELSE IF HasToolActivity(m) THEN "tool"
  ELSE None

ToolOnly(i) == TopLevel(i) /\ MsgAt(i).type = "assistant" /\ TechnicalKind(MsgAt(i)) = "tool"

\* C8: adjacent messages are merged into one aggregate iff both classify to the
\* same technical kind; technical messages with a non-technical message between
\* them are never in one aggregate; a run of tool-only assistant messages is one
\* aggregate, and a text message inserted in it stands alone between two
\* aggregates (stated for sequences without sub-agent content).
C8_MergeIffSameKind ==
  Grouped /\ (\A i \in Indices : TopLevel(i)) =>
    /\ \A i \in Indices : i + 1 \in Indices =>
         (SameAggregate(i, i + 1) <=>
            /\ TechnicalKind(MsgAt(i)) # None
            /\ TechnicalKind(MsgAt(i)) = TechnicalKind(MsgAt(i + 1)))
    /\ \A i, j \in Indices :
         (\E k \in Indices : i < k /\ k < j /\ TechnicalKind(MsgAt(k)) = None)
           => ~SameAggregate(i, j)
    /\ \A i \in Indices :
         (i + 1 \in Indices /\ i - 1 \in Indices /\ ToolOnly(i - 1) /\ ToolOnly(i + 1)
            /\ HasVisibleText(MsgAt(i)))
           => /\ IsNormalNode(i)
              /\ AggregatesWith(i - 1) # {} /\ AggregatesWith(i + 1) # {}
              /\ ~SameAggregate(i - 1, i + 1)

\* C19: every message inside an aggregated node is a non-sub-agent message
\* (no parent id and not a side chain) that carries only tool activity or only
\* reasoning content, and all messages of one aggregate have the same
\* technical kind; this covers the sub-agent messages whose parent id produced
\* no group.
C19_AggregatesHoldPlainTechnical ==
  Grouped =>
    \A k \in NodesOf("aggregated") :
      LET refs == Groups[k].messages IN
      /\ \A j \in 1..Len(refs) :
           /\ ~isSubagentMessage(refs[j].m)
           /\ TechnicalKind(refs[j].m) # None
      /\ \A i, j \in 1..Len(refs) :
           TechnicalKind(refs[i].m) = TechnicalKind(refs[j].m)

\* the visibility answers have been computed
Asked == grpHidden # <<>>
Hidden(i) == grpHidden[1][i + 1]

\* the message at i is the spawning message of an emitted sub-agent group
IsTaskMessageOfGroup(i) ==
  \E k \in NodesOf("subagent") : Groups[k].group.taskMessage.index = i

\* C20: shouldHide(m, group(msgs)) is true if and only if m is a sub-agent
\* message whose parent id is the id of a sub-agent group emitted in
\* group(msgs); it is true exactly when m is contained in the subagentMessages
\* of an emitted group, and false exactly when m appears in the output as a
\* normal node or inside an aggregate (the spawning message of an emitted
\* group, which the group carries as its taskMessage, is left aside).
C20_HideAgreesWithGrouping ==
  Asked =>
    \A i \in Indices :
      /\ Hidden(i) <=>
           /\ isSubagentMessage(MsgAt(i))
           /\ \E k \in NodesOf("subagent") :
                Groups[k].group.id = MsgAt(i).parent_tool_use_id
      /\ Hidden(i) <=> GroupsWith(i) # {}
      /\ ~IsTaskMessageOfGroup(i) =>
           (~Hidden(i) <=> IsNormalNode(i) \/ AggregatesWith(i) # {})

\* C30: every normal message, whatever its kind, is classified by one rule
\* (not aggregable with a non-empty narrative text; else not aggregable with
\* both reasoning and tool activity; else thinking with reasoning; else tool
\* with tool_use or tool_result content), so a message is inside an aggregate
\* exactly if the rule gives it a kind, and a user-kind message with only a
\* tool_result block is merged with an adjacent tool message.
C30_OneRuleForEveryKind ==
  Grouped /\ (\A i \in Indices : TopLevel(i)) =>
    /\ \A i \in Indices :
         AggregatesWith(i) # {} <=> TechnicalKind(MsgAt(i)) # None
    /\ \A i \in Indices :
         /\ i + 1 \in Indices
         /\ MsgAt(i).type = "assistant" /\ TechnicalKind(MsgAt(i)) = "tool"
         /\ MsgAt(i + 1).type = "user" /\ TechnicalKind(MsgAt(i + 1)) = "tool"
         => SameAggregate(i, i + 1)

\* a message issuing at least one spawn call with an id
Spawning(p) == Len(extractTaskToolUseIds(MsgAt(p))) > 0

\* the nodes of the output holding the group of the spawn id t
GroupNodesOf(t) == {k \in NodesOf("subagent") : Groups[k].group.id = t}

\* the input indices a normal or aggregated node stands for
Covered(k) ==
  IF Groups[k].type = "normal" THEN {Groups[k].index}
  ELSE IF Groups[k].type = "aggregated" THEN IndexSet(Groups[k].messages)
  ELSE {}

\* the node k stands at the position of the input index p: the nodes before it
\* stand for earlier messages only, the nodes after it for later ones
AtPositionOf(k, p) ==
  \A j \in 1..Len(Groups) : \A i \in Covered(j) :
    /\ j < k => i < p
    /\ j > k => i > p

\* C31: at the position of a spawning message one sub-agent-group node is
\* emitted for each of its spawn ids with at least one attributed descendant,
\* in tool_use block order, and none for a spawn id without descendants; the
\* spawning message itself is emitted as a normal node (standing alone or
\* compacted into an aggregate) exactly if none of its spawn ids produced a
\* group; no aggregate reaches across a sub-agent-group node. A spawning
\* message that is a member of an emitted group is shown inside that group and
\* not as a normal node.
C31_GroupsAtSpawnPosition ==
  Grouped =>
    /\ \A p \in Indices : Spawning(p) =>
         LET ids == extractTaskToolUseIds(MsgAt(p)) IN
         /\ \A a \in 1..Len(ids) :
              IF Descendants(p, ids[a]) # {}
              THEN /\ Cardinality(GroupNodesOf(ids[a])) = 1
                   /\ \A k \in GroupNodesOf(ids[a]) : AtPositionOf(k, p)
              ELSE GroupNodesOf(ids[a]) = {}
         /\ \A a, b \in 1..Len(ids) :
              a < b /\ ids[a] # ids[b] =>
                \A k \in GroupNodesOf(ids[a]), j \in GroupNodesOf(ids[b]) : k < j
         /\ GroupsWith(p) = {} =>
              ((IsNormalNode(p) \/ AggregatesWith(p) # {})
                 <=> \A a \in 1..Len(ids) : GroupNodesOf(ids[a]) = {})
    /\ \A k \in NodesOf("subagent"), j \in NodesOf("aggregated") :
         LET at == Groups[k].group.startIndex IN
         ~ \E i1, i2 \in IndexSet(Groups[j].messages) : i1 < at /\ at < i2

\* the input message at i is somewhere in the output
Represented(i) ==
  \/ IsNormalNode(i)
  \/ Cardinality(AggregatesWith(i)) = 1
  \/ IsTaskMessageOfGroup(i)
  \/ GroupsWith(i) # {}

\* C35: the grouping loses no message: every input message is in the output as
\* a normal node, as a member of exactly one aggregate, or as the taskMessage
\* or a member of subagentMessages of an emitted sub-agent group; this includes
\* a message whose parent id names a spawn occurring later in the sequence and
\* the descendants of a spawning message that is itself a sub-agent message.
C35_NoMessageLost ==
  Grouped => \A i \in Indices : Represented(i)

\* ------------------------------------------------------------------------
\* Claims on the usage normalizer
\* ------------------------------------------------------------------------
Normalized == Len(geminiUsage) >= 1
NormalizedTwice == Len(geminiUsage) = 2
Raw == geminiTokens[1]

\* C24: whatever the raw input (negative, non-numeric and string-valued fields
\* included), every field of a non-absent result of normalize is at least 0:
\* input_tokens, output_tokens and, when attached, the cached count.
C24_NoNegativeField ==
  \A k \in 1..Len(geminiUsage) :
    geminiUsage[k].present =>
      /\ geminiUsage[k].input_tokens >= 0
      /\ geminiUsage[k].output_tokens >= 0
      /\ geminiUsage[k].cached => geminiUsage[k].cached_input_tokens >= 0

\* a negative direct count next to a positive one: the result is present and
\* the negative count is clamped to 0
C24_Witness ==
  /\ Normalized
  /\ geminiTokens # <<>>
  /\ Raw["input_tokens"] = Num(-1)
  /\ Raw["output_tokens"] = NumStr(3)
  /\ Raw["cached"] = Num(-2)
  /\ geminiUsage[1].present
  /\ geminiUsage[1].input_tokens = 0
  /\ geminiUsage[1].output_tokens = 3
  /\ ~geminiUsage[1].cached

\* a canonical record: the four counts, each a non-negative number
CanonicalFields ==
  {"input_tokens", "output_tokens", "cache_read_tokens", "cache_creation_tokens"}
IsCanonical(t) ==
  \A f \in RawFields :
    IF f \in CanonicalFields THEN t[f][1] = "number" /\ t[f][2] >= 0
    ELSE t[f] = Absent

\* the four canonical values a returned usage carries: an absent result and a
\* missing count read as 0, the cached count read as the cache-read count
FourValues(usage) ==
  [input_tokens |-> usage.input_tokens,
   output_tokens |-> usage.output_tokens,
   cache_read_tokens |-> IF usage.cached THEN usage.cached_input_tokens ELSE 0,
   cache_creation_tokens |-> 0]

\* C25: normalize of an already-canonical record carries the same four
\* values, and normalize of its own non-absent output returns that output
\* unchanged.
C25_CanonicalIsFixedPoint ==
  /\ Normalized /\ geminiTokens # <<>> /\ IsCanonical(Raw)
       => FourValues(geminiUsage[1]) = [f \in CanonicalFields |-> Raw[f][2]]
  /\ NormalizedTwice /\ geminiUsage[1].present
       => geminiUsage[2] = geminiUsage[1]

\* the signals of a raw record: a direct count, a component sum (missing when
\* its leading component is missing) and the cached count; JsNull if missing
DirectSignal(f) == toNumber(Raw[f])
PromptSignal ==
  LET prompt == FirstNumber(Raw, "prompt", "promptTokenCount", "prompt_token_count")
      tool == FirstNumber(Raw, "tool", "toolUsePromptTokenCount",
                          "tool_use_prompt_token_count")
  IN IF prompt = JsNull THEN JsNull ELSE Num(prompt[2] + OrZeroNum(tool))
CandidatesSignal ==
  LET candidates == FirstNumber(Raw, "candidates", "candidatesTokenCount",
                                "candidates_token_count")
      thoughts == FirstNumber(Raw, "thoughts", "thoughtsTokenCount",
                              "thoughts_token_count")
  IN IF candidates = JsNull THEN JsNull ELSE Num(candidates[2] + OrZeroNum(thoughts))
Signals ==
  {DirectSignal("input_tokens"), DirectSignal("output_tokens"),
   PromptSignal, CandidatesSignal,
   FirstNumber(Raw, "cached", "cachedContentTokenCount", "cached_content_token_count")}

\* C26: normalize returns absent if and only if every direct signal
\* (input_tokens, output_tokens) and every derived signal (prompt + toolUse,
\* candidates + thoughts, cached) is zero or missing (a negative count read
\* as no signal); any strictly positive signal yields a non-absent result.
C26_AbsentIffNoSignal ==
  Normalized /\ geminiTokens # <<>> =>
    (~geminiUsage[1].present <=> \A x \in Signals : x = JsNull \/ x[2] <= 0)

\* the names a component count is accepted under
CountNames(count) ==
  CASE count = "prompt" -> {"prompt", "promptTokenCount", "prompt_token_count"}
    [] count = "candidates" ->
         {"candidates", "candidatesTokenCount", "candidates_token_count"}
    [] count = "thoughts" -> {"thoughts", "thoughtsTokenCount", "thoughts_token_count"}
    [] count = "toolUse" ->
         {"tool", "toolUsePromptTokenCount", "tool_use_prompt_token_count"}
    [] count = "cached" ->
         {"cached", "cachedContentTokenCount", "cached_content_token_count"}

\* the numbers the raw record gives for a count under any of its names
CountValues(count) ==
  {toNumber(Raw[f])[2] : f \in {g \in CountNames(count) : toNumber(Raw[g]) # JsNull}}

\* a missing count counting as 0
OrMissing(S) == IF S = {} THEN {0} ELSE S

\* a count as the result reports it (no negative field, C24)
AtLeastZero(n) == IF n < 0 THEN 0 ELSE n

\* the value of a result field: the direct count if the record has one, else
\* the sum of the leading component and the secondary one, else 0
FieldValues(direct, leading, secondary) ==
  IF toNumber(Raw[direct]) # JsNull THEN {AtLeastZero(toNumber(Raw[direct])[2])}
  ELSE IF CountValues(leading) # {}
  THEN {AtLeastZero(a + b) : a \in CountValues(leading),
                             b \in OrMissing(CountValues(secondary))}
  ELSE {0}

\* C34: for a raw record with component counts only, the result of normalize
\* has input_tokens = prompt + toolUse and output_tokens = candidates +
\* thoughts, a missing toolUse or thoughts count counting as 0 and each count
\* being read under its short, camelCase or snake_case name; a direct
\* input_tokens or output_tokens count of the record is used instead of the
\* sum; the cached count is attached only when it is strictly positive.
C34_DerivedFromComponents ==
  Normalized /\ geminiTokens # <<>> /\ geminiUsage[1].present =>
    /\ geminiUsage[1].input_tokens \in FieldValues("input_tokens", "prompt", "toolUse")
    /\ geminiUsage[1].output_tokens
         \in FieldValues("output_tokens", "candidates", "thoughts")
    /\ geminiUsage[1].cached =>
         /\ geminiUsage[1].cached_input_tokens > 0
         /\ geminiUsage[1].cached_input_tokens \in CountValues("cached")

\* component counts only, one under each spelling: 6 + 2 and 3 + 1
C34_Witness ==
  /\ Normalized
  /\ geminiTokens # <<>>
  /\ Raw["input_tokens"] = Absent /\ Raw["output_tokens"] = Absent
  /\ Raw["prompt_token_count"] = NumStr(6)
  /\ Raw["toolUsePromptTokenCount"] = Num(2)
  /\ Raw["candidatesTokenCount"] = Num(3)
  /\ Raw["thoughts_token_count"] = Num(1)
  /\ geminiUsage[1].present
  /\ geminiUsage[1].input_tokens = 8
  /\ geminiUsage[1].output_tokens = 4
  /\ ~geminiUsage[1].cached

\* ------------------------------------------------------------------------
\* Claims on billing a loaded Gemini session
\* ------------------------------------------------------------------------
\* the normalized usage of the turn k of the session detail
TurnUsage(k) == extractGeminiUsage(geminiDetail[k].tokens)

TurnTokens(k) == GeminiUsageTokens(TurnUsage(k))

\* the model turns whose usage is extractable and non-zero
BilledTurns ==
  {k \in 1..Len(geminiDetail) :
     /\ geminiDetail[k].type # "user"
     /\ TurnUsage(k).present
     /\ calculateTotalTokens(TurnTokens(k)) > 0}

RECURSIVE SumOverTurns(_, _)
SumOverTurns(S, field) ==
  IF S = {} THEN 0
  ELSE LET k == SetMax(S) IN TurnTokens(k)[field] + SumOverTurns(S \ {k}, field)

\* C40: billing a loaded Gemini session counts every turn once: the aggregate
\* of the adapter's output has exactly one billing event per model turn whose
\* usage is extractable and non-zero, and the token totals are the sums of
\* those turns' normalized usage, also when two turns carry the same timestamp
\* string or no timestamp.
C40_EveryTurnCountedOnce ==
  geminiConverted # <<>> /\ billResult # <<>> =>
    /\ Len(billResult[1].events) = Cardinality(BilledTurns)
    /\ billResult[1].totals.inputTokens = SumOverTurns(BilledTurns, "input_tokens")
    /\ billResult[1].totals.outputTokens = SumOverTurns(BilledTurns, "output_tokens")
    /\ billResult[1].totals.cacheReadTokens
         = SumOverTurns(BilledTurns, "cache_read_tokens")
    /\ billResult[1].totals.totalTokens
         = SumOverTurns(BilledTurns, "input_tokens")
             + SumOverTurns(BilledTurns, "output_tokens")
             + SumOverTurns(BilledTurns, "cache_read_tokens")

\* ------------------------------------------------------------------------
\* Claims on the Gemini adapter
\* ------------------------------------------------------------------------
Converted == geminiConverted # <<>>
Out == geminiConverted[1]

IsToolResultMessage(m) ==
  m.type = "user" /\ m.content # <<>> /\ m.content[1].type = "tool_result"

\* the message that closes a turn: the user message of a user turn or the
\* assistant message of a model turn
IsHead(m) == m.type = "assistant" \/ (m.type = "user" /\ ~IsToolResultMessage(m))
Heads == {i \in 1..Len(Out) : IsHead(Out[i])}
HeadOf(k) == CHOOSE i \in Heads : Cardinality({j \in Heads : j <= i}) = k

\* the positions of the output that belong to turn k: from the end of the
\* previous turn's messages to the result message, if any, after the head
HasResultAfter(i) == i + 1 <= Len(Out) /\ Out[i + 1].type = "result"
TurnEnd(k) == IF HasResultAfter(HeadOf(k)) THEN HeadOf(k) + 1 ELSE HeadOf(k)
TurnStart(k) == IF k = 1 THEN 1 ELSE TurnEnd(k - 1) + 1

ModelTurns == {k \in 1..Len(geminiDetail) : geminiDetail[k].type # "user"}

\* a call carries an output: a structured result or a display result
HasOutput(toolCall) == toolCall.result # Absent \/ ~Falsy(toolCall.resultDisplay)

\* the outputs of a call, as content: the display string, the string result,
\* the output of the function response, the JSON text of another result
OutputsOf(toolCall) ==
  (IF Falsy(toolCall.resultDisplay) THEN {} ELSE {toolCall.resultDisplay})
    \cup (CASE toolCall.result = Absent -> {}
            [] toolCall.result[1] = "string" -> {toolCall.result}
            [] toolCall.result[1] = "functionResponse" -> {Str(toolCall.result[2])}
            [] OTHER -> {JsonStringify(toolCall.result)})

\* the tool_result messages of turn k for the call
ToolResultsOf(k, toolCall) ==
  {i \in TurnStart(k)..TurnEnd(k) :
     /\ IsToolResultMessage(Out[i])
     /\ Out[i].content[1].tool_use_id = toolCall.id}

\* the scenario of the specification: a user turn "fix bug", then a model
\* turn with the call readFile (resultDisplay "ok"), the narrative "Fixed it"
\* and tokens {prompt: 100, candidates: 20, cached: 0}
ScenarioCall == Call("t1", "readFile", Absent, Str("ok"), "success")
Scenario ==
  <<Turn("user", Str("fix bug"), <<>>, <<>>),
    Turn("gemini", Str("Fixed it"), <<<<ScenarioCall>>>>, <<GeminiTokens(100, 20, 0)>>)>>

\* C27: for every model turn, each tool call that carries an output (a
\* structured result or a display result) yields a tool_use block on the
\* turn's assistant message and a tool_result message with that output as
\* content; the scenario yields the tool_use block, a tool_result message
\* with content "ok", the narrative and a result message with input_tokens
\* 100 and output_tokens 20.
C27_EveryOutputYieldsToolResult ==
  Converted /\ Cardinality(Heads) = Len(geminiDetail) =>
    /\ \A k \in ModelTurns :
         \A c \in 1..Len(CallsOf(geminiDetail[k])) :
           LET toolCall == CallsOf(geminiDetail[k])[c] IN
           HasOutput(toolCall) =>
             /\ \E b \in 1..Len(Out[HeadOf(k)].content) :
                  Out[HeadOf(k)].content[b] = GeminiToolUse(toolCall)
             /\ \E i \in ToolResultsOf(k, toolCall) :
                  Out[i].content[1].content \in OutputsOf(toolCall)
    /\ geminiDetail = Scenario =>
         /\ \E i \in 1..Len(Out) :
              /\ IsToolResultMessage(Out[i])
              /\ Out[i].content[1].content = Str("ok")
         /\ \E i \in 1..Len(Out) :
              /\ Out[i].type = "assistant"
              /\ Out[i].content = <<GeminiToolUse(ScenarioCall), GeminiText("Fixed it")>>
         /\ Out[Len(Out)].type = "result"
         /\ Out[Len(Out)].usage[1].input_tokens = 100
         /\ Out[Len(Out)].usage[1].output_tokens = 20

\* C28: when a tool call carries both a structured function-response output
\* and a display-summary string, the content of its tool_result message is
\* the function-response output, not the display summary.
C28_StructuredOutputPreferred ==
  Converted /\ Cardinality(Heads) = Len(geminiDetail) =>
    \A k \in ModelTurns :
      \A c \in 1..Len(CallsOf(geminiDetail[k])) :
        LET toolCall == CallsOf(geminiDetail[k])[c] IN
        /\ toolCall.result # Absent
        /\ toolCall.result[1] = "functionResponse"
        /\ ~Falsy(toolCall.resultDisplay)
        => \A i \in ToolResultsOf(k, toolCall) :
             Out[i].content[1].content = Str(toolCall.result[2])

\* the positions of the calls of turn k that the tool_result messages at the
\* output positions i name
CallIndex(k, i) ==
  {c \in 1..Len(CallsOf(geminiDetail[k])) :
     CallsOf(geminiDetail[k])[c].id = Out[i].content[1].tool_use_id}

\* C29: turns appear in the order of the session detail, one user message
\* per user turn and exactly one assistant message per model turn; all
\* tool_result messages of a model turn precede its assistant message, in
\* tool-call order; a result message with the turn's normalized usage is
\* present if and only if the usage is extractable, right after the
\* assistant message.
C29_TurnLayout ==
  Converted =>
    /\ Cardinality(Heads) = Len(geminiDetail)
    /\ Len(geminiDetail) > 0 => TurnEnd(Len(geminiDetail)) = Len(Out)
    /\ Len(geminiDetail) = 0 => Out = <<>>
    /\ \A k \in 1..Len(geminiDetail) :
         LET msg == geminiDetail[k]
             usage == extractGeminiUsage(msg.tokens)
         IN
         IF msg.type = "user"
         THEN /\ Out[HeadOf(k)].type = "user"
              /\ TurnStart(k) = HeadOf(k)
              /\ TurnEnd(k) = HeadOf(k)
         ELSE /\ Out[HeadOf(k)].type = "assistant"
              /\ \A i \in TurnStart(k)..(HeadOf(k) - 1) :
                   /\ IsToolResultMessage(Out[i])
                   /\ CallIndex(k, i) # {}
              /\ \A i, j \in TurnStart(k)..(HeadOf(k) - 1) :
                   i < j => \A a \in CallIndex(k, i), b \in CallIndex(k, j) : a < b
              /\ HasResultAfter(HeadOf(k)) <=> usage.present
              /\ usage.present => Out[HeadOf(k) + 1].usage = <<usage>>

\* a model turn with two calls that both have a result, a narrative and
\* extractable usage, after a user turn
C29_Witness ==
  /\ Converted
  /\ Len(geminiDetail) = 2
  /\ geminiDetail[1].type = "user"
  /\ Len(CallsOf(geminiDetail[2])) = 2
  /\ \A c \in 1..2 : CallsOf(geminiDetail[2])[c].result # Absent
  /\ Len(Out) = 5
  /\ IsToolResultMessage(Out[2]) /\ Out[2].content[1].tool_use_id = "t1"
  /\ IsToolResultMessage(Out[3]) /\ Out[3].content[1].tool_use_id = "t2"
  /\ Out[4].type = "assistant" /\ Len(Out[4].content) = 3
  /\ Out[5].type = "result" /\ Out[5].usage[1].input_tokens = 100

====
